---- MODULE Spec2Model ----
(***************************************************************************)
(* Dynamic expansion of a plannable resource (nodeExpandPlannableResource), *)
(* the execution of the instance nodes it produces, the plan round built    *)
(* on top of it, and the graph walk that orders the nodes.                  *)
(***************************************************************************)
EXTENDS Integers, Sequences, FiniteSets, TLC

(***************************************************************************)
(* Bounds of the model.                                                     *)
(***************************************************************************)
\* the largest known count a resource is declared with
MaxCount == 2
\* the most resource changes one plan carries
MaxChanges == 2
\* the most elements a for_each collection has
MaxKeys == 2
MaxOps == 2
MaxEntries == 2
MaxDiags == 4
MaxVars == 3

(***************************************************************************)
(* Addresses.  A module instance is a number of ModKeys; a resource        *)
(* instance address is <<module instance, instance key>>.                  *)
(***************************************************************************)
\* addrs.NoKey: the key of the single instance of a resource without count
NoKey == -1
\* addrs.WildcardKey: "some member of an as-yet-unknown expansion"
WildcardKey == -2
\* the module prefix of a partial-expanded module (the call itself is unknown)
AnyModule == 0
\* the module instances the configuration may declare for the resource
ModKeys == {1, 2}

IntKeys == 0 .. (MaxCount - 1)
InstKeys == {NoKey} \cup IntKeys
InstAddrs == ModKeys \X InstKeys

\* The repetition of a resource inside one module instance, as the expander
\* reports it: no repetition, a known count, or an unknown count/for_each.
ExpSingle == [mode |-> "single", n |-> 1]
ExpUnknown == [mode |-> "unknown", n |-> 0]
ExpCount(c) == [mode |-> "count", n |-> c]
Expansions == {ExpSingle, ExpUnknown} \cup {ExpCount(c) : c \in 0 .. MaxCount}
KnownExpansions == Expansions \ {ExpUnknown}

\* a count whose last instance is missing
KeysOfShort(e) ==
  IF e.mode = "single" THEN {NoKey}
  ELSE IF e.mode = "count" THEN 0 .. (e.n - 2) ELSE {}

\* expander.ExpandResource / ResourceInstanceKeys: the known keys
KeysOf(e) ==
  IF e.mode = "single" THEN {NoKey}
  ELSE IF e.mode = "count" THEN 0 .. (e.n - 1)
  ELSE {}

\* PartialExpandedResource.MatchesInstance
MatchesInstance(partialAddr, instAddr) ==
  \/ partialAddr[1] = AnyModule
  \/ partialAddr[1] = instAddr[1]

(***************************************************************************)
(* State of one dynamic expansion and of the walk of its subgraph.         *)
(***************************************************************************)
VARIABLES
  cfg,              \* the expanding node, the expander's answers, the prior state
  pc,               \* position of DynamicExpand
  held,             \* the state locks the expansion holds
  relocked,         \* a Lock() was issued on a lock that was already held
  todo,             \* module instances dynamicExpand still has to expand
  knownAddrs,       \* instances definitely in the desired state
  partialExpandedAddrs, \* unresolved prefixes
  orphanAddrs,      \* prior instances definitely not desired
  maybeOrphanAddrs, \* prior instances under an unresolved prefix
  g,                \* the graph being built
  ret,              \* what DynamicExpand returned: "none", "graph" or "nil"
  diags,            \* the diagnostics accumulated
  calls,            \* provider calls made so far: [addr, op, locked]
  changes,          \* Changes.Resources entries written by the subgraph
  deferred          \* DeferredResources entries reported by the subgraph

xvars == <<cfg, pc, held, relocked, todo, knownAddrs, partialExpandedAddrs,
           orphanAddrs, maybeOrphanAddrs, g, ret, diags, calls, changes, deferred>>

\* a plan/apply round
VARIABLES
  popts,      \* PlanOpts and the provider's behaviour: [targets, allowed, defer]
  pstate,     \* the instances in the state
  pround,     \* rounds started
  ppc,        \* "idle", the resource the walk visits next, "planned", "failed"
  pcount,     \* var.resource_count of the round
  pcalls,     \* provider calls of the round: [addr, op]
  pchanges,   \* plan.Changes.Resources
  pdeferred,  \* plan.DeferredResources
  pdefRes,    \* resources the deferral tracker holds as deferred
  pdiags,     \* diagnostics of the round
  papplied,   \* addresses ApplyResourceChange was called for
  pcomplete,  \* plan.Complete
  plast       \* the round before: its var.resource_count, and was its plan applied?

pvars == <<popts, pstate, pround, ppc, pcount, pcalls, pchanges, pdeferred,
           pdefRes, pdiags, papplied, pcomplete, plast>>

\* the graph walk
VARIABLES
  wedges,     \* the dependency edges: <<A, B>> when B depends on A
  wlimit,     \* the parallelism limit
  wstatus     \* per vertex: "pending", "running", "done", "failed", "skipped"

wvars == <<wedges, wlimit, wstatus>>

\* TestFileRunner.wait: one wait for one operation of a test run
VARIABLES
  operation,    \* the caller of wait: "validate", "plan", "apply", "destroy"
  created,      \* the objects the plan being applied creates
  StoppedCtx,   \* is runner.Suite.StoppedCtx done? (first interrupt)
  CancelledCtx, \* is runner.Suite.CancelledCtx done? (second interrupt)
  runningCtx,   \* is runningCtx done? (the operation's goroutine has exited)
  waitAt,       \* where wait is: "loop", "handleStopped", "handleCancelled", "returned"
  finished,     \* the local variable finished
  cancelled,    \* the named result cancelled
  stopCalled,   \* has "go ctx.Stop()" been issued?
  summaries,    \* the FatalInterruptSummary reports given to the view
  updates,      \* progress updates (View.Run) printed, one per two seconds waited
  updatesSinceCancel  \* those printed after the hard cancel was handled

tvars == <<operation, created, StoppedCtx, CancelledCtx, runningCtx, waitAt,
           finished, cancelled, stopCalled, summaries, updates,
           updatesSinceCancel>>

\* TestFileRunner.Test and cleanup: the run blocks of one test file
VARIABLES
  fruns,          \* file.Runs: per run block its command and its state key
  fidx,           \* the index of the run block the loop of Test is at
  fpc,            \* where the file runner is
  RelevantStates, \* runner.RelevantStates: per key the last updating run and the state
  runStatus,      \* run.Status per run block
  fileStatus,     \* file.Status
  fqueue,         \* cleanup: the states still to destroy, in order
  fdestroys,      \* the keys destroy was called for, in call order
  freports        \* the keys DestroySummary was printed for

fvars == <<fruns, fidx, fpc, RelevantStates, runStatus, fileStatus, fqueue,
           fdestroys, freports>>


\* the resource changes of one plan: written to a plan file, read back, and
\* rendered in the JSON plan
VARIABLES
  planChanges,    \* the action of each resource change of the plan
  protoChanges,   \* the wire action of each change written so far
  readChanges,    \* per change read back: the action and whether it failed
  jsonChanges,    \* the "actions" list of each change rendered so far
  cpc             \* "ready", or "panic" once the writer has panicked

cvars == <<planChanges, protoChanges, readChanges, jsonChanges, cpc>>

\* no plan is being written or rendered
CIdle ==
  /\ planChanges = <<>> /\ protoChanges = <<>> /\ readChanges = <<>>
  /\ jsonChanges = <<>> /\ cpc = "idle"


\* the evaluation of a reference to one resource instance
VARIABLES
  evState,        \* Evaluator.State: the current object of the instance
  evChanges,      \* Evaluator.Changes: the pending change of the instance
  got             \* what the last GetResource saw and returned

evars == <<evState, evChanges, got>>

\* nothing is stored, planned or evaluated
EIdle ==
  /\ evState = [status |-> "none", value |-> "none"]
  /\ evChanges = [action |-> "none", after |-> "none"]
  /\ got = [state |-> [status |-> "none", value |-> "none"],
            changes |-> [action |-> "none", after |-> "none"],
            value |-> "idle"]


\* Cloud.plan of one remote run, from the wait for its plan phase on
VARIABLES
  rcfg,           \* what the run has: a post-plan stage, a cost estimate, policy checks
  rstatus,        \* r.Status as Runs.Read returned it after the plan phase
  rpc,            \* where plan is
  rshown,         \* the phases whose results have been rendered
  rret            \* what plan returned: "nil", or the step whose error it passed on

rvars == <<rcfg, rstatus, rpc, rshown, rret>>

\* no remote plan is running
RIdle ==
  /\ rcfg = [postPlan |-> FALSE, costEstimate |-> FALSE, policyChecks |-> FALSE]
  /\ rstatus = "pending" /\ rpc = "idle" /\ rshown = {} /\ rret = "none"


\* the for_each of one stack object: its value, and the instances made of it
VARIABLES
  forEachVal,     \* the value the for_each expression gives
  unknownForEachSupported, \* whether unknown for_each values are supported
  epc,            \* "expr", "map" or "done"
  forEachDiags,   \* the error summaries evaluateForEachExpr returned
  insts           \* the map instancesMap returned: whether nil, and its keys

svars == <<forEachVal, unknownForEachSupported, epc, forEachDiags, insts>>

\* no for_each is being evaluated
SIdle ==
  /\ forEachVal = [kind |-> "nil", is |-> "known", sensitive |-> FALSE,
                   keys |-> {}]
  /\ unknownForEachSupported = FALSE /\ epc = "idle"
  /\ forEachDiags = {} /\ insts = [nil |-> TRUE, keys |-> {}]


(* The cloud backend's Operation: the operation lock and, for each operation, *)
(* the position of its goroutine and what it has seen and done.               *)
VARIABLES opLock, opc, oauto, ofret, orun, oanswer, oremote, oresult,
          oreported
ovars == <<opLock, opc, oauto, ofret, orun, oanswer, oremote, oresult,
           oreported>>

Ops == 1 .. MaxOps
Unlocked == 0
NoRet == [r |-> FALSE, err |-> "none"]
NoRun == [status |-> "none", cancelable |-> FALSE]

OIdle ==
  /\ opLock = Unlocked
  /\ opc = [o \in Ops |-> "idle"]
  /\ oauto = [o \in Ops |-> FALSE]
  /\ ofret = [o \in Ops |-> NoRet]
  /\ orun = [o \in Ops |-> NoRun]
  /\ oanswer = [o \in Ops |-> "none"]
  /\ oremote = [o \in Ops |-> "none"]
  /\ oresult = [o \in Ops |-> "OperationSuccess"]
  /\ oreported = [o \in Ops |-> FALSE]


(* Loading a stack state: the raw state map given and what each of the two *)
(* entry points returned for it.                                           *)
VARIABLES lraw, lproto, ldirect
lvars == <<lraw, lproto, ldirect>>

NoErr == <<"", "">>
EmptyStackState == [components |-> {}, objects |-> {}, discard |-> {}]
NoOutcome ==
  [kind |-> "none", err |-> NoErr, st |-> EmptyStackState, inputRaw |-> FALSE]

LIdle ==
  /\ lraw = <<>>
  /\ lproto = NoOutcome
  /\ ldirect = NoOutcome

(* Finishing the diagnostics of an evaluation. *)
VARIABLES evalDiags, finalDiags, dpc
dvars == <<evalDiags, finalDiags, dpc>>

DIdle ==
  /\ evalDiags = <<>>
  /\ finalDiags = <<>>
  /\ dpc = "idle"

(* The variables of a remote run: the parsed variables and the list sent. *)
VARIABLES variables, runVariables, vpc
vvars == <<variables, runVariables, vpc>>

VIdle ==
  /\ variables = <<>>
  /\ runVariables = <<>>
  /\ vpc = "idle"

vars == <<xvars, pvars, wvars, tvars, fvars, cvars, evars, rvars, svars, ovars, lvars, dvars, vvars>>

\* what the actions of one part leave alone
exceptX == <<pvars, wvars, tvars, fvars, cvars, evars, rvars, svars, ovars, lvars, dvars, vvars>>
exceptP == <<xvars, wvars, tvars, fvars, cvars, evars, rvars, svars, ovars, lvars, dvars, vvars>>
exceptW == <<xvars, pvars, tvars, fvars, cvars, evars, rvars, svars, ovars, lvars, dvars, vvars>>
exceptT == <<xvars, pvars, wvars, fvars, cvars, evars, rvars, svars, ovars, lvars, dvars, vvars>>
exceptTF == <<xvars, pvars, wvars, cvars, evars, rvars, svars, ovars, lvars, dvars, vvars>>
exceptC == <<xvars, pvars, wvars, tvars, fvars, evars, rvars, svars, ovars, lvars, dvars, vvars>>
exceptE == <<xvars, pvars, wvars, tvars, fvars, cvars, rvars, svars, ovars, lvars, dvars, vvars>>
exceptR == <<xvars, pvars, wvars, tvars, fvars, cvars, evars, svars, ovars, lvars, dvars, vvars>>
exceptS == <<xvars, pvars, wvars, tvars, fvars, cvars, evars, rvars, ovars, lvars, dvars, vvars>>
exceptO == <<xvars, pvars, wvars, tvars, fvars, cvars, evars, rvars, svars, lvars, dvars, vvars>>
exceptL == <<xvars, pvars, wvars, tvars, fvars, cvars, evars, rvars, svars, ovars, dvars, vvars>>
exceptD == <<xvars, pvars, wvars, tvars, fvars, cvars, evars, rvars, svars, ovars, lvars, vvars>>
exceptV == <<xvars, pvars, wvars, tvars, fvars, cvars, evars, rvars, svars, ovars, lvars, dvars>>

(***************************************************************************)
(* Inputs of an expansion.                                                 *)
(***************************************************************************)
\* the instances one module instance can hold in the prior state: none, the
\* keyless instance, or the instances of an earlier count
StateShapes == {{}, {NoKey}} \cup {0 .. (n - 1) : n \in 1 .. MaxCount}

\* -target / -replace addresses given to the plan; this set is not pre-filtered
TargetChoices == {{}, {<<1, 0>>}}
ForceReplaceChoices == {{}, {<<1, NoKey>>}, {<<1, 0>>}}

\* skipRefresh, skipPlanChanges, ForceCreateBeforeDestroy, Config.Managed.CreateBeforeDestroy,
\* the status of the prior objects, and whether a removed block with
\* destroy = false names the resource
DefaultFlags ==
  [skipRefresh |-> FALSE, skipPlanChanges |-> FALSE,
   forceCBD |-> "unset", configCBD |-> FALSE, tainted |-> FALSE,
   forget |-> FALSE]

\* What the expander and writeResourceState answer for the module instances:
\* either the module call itself is unknown (no known instance, one
\* partial-expanded module prefix), or some instances are known and each one
\* has a resource repetition that is known, unknown, or fails to evaluate.
ModuleAnswers(allowUnknown) ==
  LET exps == IF allowUnknown THEN Expansions ELSE KnownExpansions
      known ==
        { [modUnknown |-> FALSE, knownInsts |-> ms, resExp |-> re, evalErr |-> ee] :
            ms \in SUBSET ModKeys, re \in [ModKeys -> exps], ee \in SUBSET ModKeys }
      normal ==
        { a \in known :
            /\ a.evalErr \subseteq a.knownInsts
            /\ \A m \in ModKeys :
                 (m \notin a.knownInsts \/ m \in a.evalErr) => a.resExp[m] = ExpSingle }
      unknown ==
        IF allowUnknown
        THEN { [modUnknown |-> TRUE, knownInsts |-> {},
                resExp |-> [m \in ModKeys |-> ExpSingle], evalErr |-> {}] }
        ELSE {}
  IN normal \cup unknown

PriorStates ==
  { UNION { {<<m, k>> : k \in sh[m]} : m \in ModKeys } : sh \in [ModKeys -> StateShapes] }

\* create_before_destroy read from the configuration alone
CreateBeforeDestroyConfigOnly(c) == c.flags.configCBD

\* n.CreateBeforeDestroy()
CreateBeforeDestroy(c) ==
  IF c.flags.forceCBD # "unset" THEN c.flags.forceCBD = "true"
  ELSE c.flags.configCBD

Configs(variants, flagSet, targetSet, replaceSet) ==
  { [variant |-> v, ans |-> a, stateInsts |-> st, targets |-> t,
     forceReplace |-> fr, flags |-> f, importTargets |-> {},
     fault |-> "none"] :
      v \in variants, a \in ModuleAnswers(TRUE), st \in PriorStates,
      t \in targetSet, fr \in replaceSet, f \in flagSet }

\* The fully-known branch runs only when unknown expansions are not supported,
\* and then the expander never answers "unknown".
\* A resource that is no longer declared ("removed") is not expanded at all,
\* and only such a resource can be named by a removed block.
NoExpansion ==
  [modUnknown |-> FALSE, knownInsts |-> {},
   resExp |-> [m \in ModKeys |-> ExpSingle], evalErr |-> {}]

\* n.importTargets: the addresses the import blocks of the resource name
ImportChoices == {{}, {<<1, NoKey>>}, {<<1, 0>>}}

\* what else may be wrong with the configuration of the resource: its count
\* or for_each refers to the resource itself, or an import block fails to
\* evaluate
Faults == {"none", "selfRef", "importExpand"}

\* the configurations with import blocks and faults added
WithImports(configs) ==
  { [c EXCEPT !.importTargets = it, !.fault = f] :
      c \in configs, it \in ImportChoices, f \in Faults }

ValidConfig(c) ==
  /\ c.importTargets # {} => c.variant = "known"
  /\ c.fault = "importExpand" => c.importTargets # {}
  /\ c.variant = "known" => c.ans \in ModuleAnswers(FALSE)
  /\ c.variant = "removed" => c.ans = NoExpansion
  /\ c.flags.forget => c.variant = "removed"

(***************************************************************************)
(* Diagnostics.                                                            *)
(***************************************************************************)
\* tfdiags.Sourceless(severity, summary, detail); about holds the addresses the
\* detail text names
Diag(severity, summary, about) ==
  [severity |-> severity, summary |-> summary, about |-> about]

NoAbout == <<<<AnyModule, NoKey>>, {}>>

\* diags.HasErrors()
HasErrors(ds) == \E d \in ds : d.severity = "error"

(***************************************************************************)
(* Graph nodes.                                                            *)
(***************************************************************************)
\* One vertex of the expanded graph, with the settings its constructor copies
\* from the expanding node.  schema stands for Schema, ProvisionerSchemas and
\* ProviderMetas; deps for dependsOn and Dependencies.
Node(kind, addr, skipRefresh, skipPlanChanges, forceReplace, forceCBD, schema, deps) ==
  [kind |-> kind, addr |-> addr, skipRefresh |-> skipRefresh,
   skipPlanChanges |-> skipPlanChanges, forceReplace |-> forceReplace,
   ForceCreateBeforeDestroy |-> forceCBD, schema |-> schema, deps |-> deps]

\* addRootNodeToGraph / RootTransformer: the one shared root vertex
rootNode == Node("root", <<AnyModule, NoKey>>, FALSE, FALSE, {}, FALSE, FALSE, FALSE)

\* concreteResource: the NodePlannableResourceInstance of the fully-known branch
concreteResource(c, addr) ==
  Node("instance", addr, c.flags.skipRefresh, c.flags.skipPlanChanges,
       c.forceReplace, CreateBeforeDestroy(c), TRUE, TRUE)

\* concreteResourceOrphan: the NodePlannableResourceInstanceOrphan of the
\* fully-known branch
concreteResourceOrphan(c, addr) ==
  Node("orphan", addr, c.flags.skipRefresh, c.flags.skipPlanChanges,
       {}, FALSE, TRUE, FALSE)

\* the NodePlannableResourceInstanceOrphan the plan graph holds for an instance
\* of a resource that is no longer declared
removedOrphanNode(c, addr) ==
  Node("orphan", addr, c.flags.skipRefresh, c.flags.skipPlanChanges,
       {}, FALSE, TRUE, FALSE)

\* the nodes dynamicExpandWithUnknownInstancesExperiment builds for knownAddrs
experimentKnownNode(c, addr) ==
  Node("instance", addr, c.flags.skipRefresh, c.flags.skipPlanChanges,
       c.forceReplace, FALSE, FALSE, FALSE)

\* a partial-expanded vertex that plans nothing
experimentPartialNodeSilent(c, addr) ==
  Node("partial", addr, FALSE, TRUE, {}, FALSE, FALSE, FALSE)

\* ... for partialExpandedAddrs
experimentPartialNode(c, addr) ==
  Node("partial", addr, FALSE, c.flags.skipPlanChanges, {}, FALSE, FALSE, FALSE)

\* ... for orphanAddrs
experimentOrphanNode(c, addr) ==
  Node("orphan", addr, c.flags.skipRefresh, c.flags.skipPlanChanges,
       {}, FALSE, FALSE, FALSE)

\* a maybe-orphan vertex that takes skipPlanChanges from the expanding node
experimentMaybeOrphanNodePlanned(c, addr) ==
  Node("instance", addr, c.flags.skipRefresh, c.flags.skipPlanChanges,
       c.forceReplace, FALSE, FALSE, FALSE)

\* ... for maybeOrphanAddrs: "We never plan for a maybe-orphan"
experimentMaybeOrphanNode(c, addr) ==
  Node("instance", addr, c.flags.skipRefresh, TRUE,
       c.forceReplace, FALSE, FALSE, FALSE)

(***************************************************************************)
(* The partially-known branch, piece by piece.                             *)
(***************************************************************************)
\* the module instances whose writeResourceState succeeded
ResolvedModules(c) == c.ans.knownInsts \ c.ans.evalErr

\* first loop over knownInsts: the instance keys the expander knows
ResolveKnownAddrs(c) ==
  UNION { {<<m, k>> : k \in KeysOf(c.ans.resExp[m])} : m \in ResolvedModules(c) }

\* first loop (haveUnknownKeys) and second loop over partialInsts
ResolvePartialAddrs(c) ==
  {<<m, WildcardKey>> : m \in {x \in ResolvedModules(c) : c.ans.resExp[x] = ExpUnknown}}
    \cup (IF c.ans.modUnknown THEN {<<AnyModule, WildcardKey>>} ELSE {})

\* the scan of the previous run state: instances beneath a partial-expanded
\* prefix ("continue Instances")
ClassifyMaybeOrphans(stateInsts, partial, known) ==
  {i \in stateInsts : \E p \in partial : MatchesInstance(p, i)}

\* the orphan test without the "continue Instances" of the prefix match
ClassifyOrphansNoContinue(stateInsts, partial, known) ==
  {i \in stateInsts : i \notin known}

\* the scan of the previous run state: the remaining instances that are not in
\* the known desired set
\* a scan that does not look at knownAddrs
ClassifyOrphansIgnoringKnown(stateInsts, partial, known) ==
  {i \in stateInsts : ~(\E p \in partial : MatchesInstance(p, i))}

ClassifyOrphans(stateInsts, partial, known) ==
  {i \in stateInsts : /\ ~(\E p \in partial : MatchesInstance(p, i))
                      /\ i \notin known}

\* the rejection of -target only
ExperimentRejectsTargetsOnly(c, partial) ==
  IF partial # {} /\ c.targets # {}
    THEN {Diag("error", "Cannot use resource targeting with unknown count or for_each", NoAbout)}
    ELSE {}

\* the TEMP block of dynamicExpandWithUnknownInstancesExperiment: options that
\* unresolved prefixes do not support yet
ExperimentRejects(c, partial) ==
  IF partial = {} THEN {}
  ELSE (IF c.targets # {}
          THEN {Diag("error", "Cannot use resource targeting with unknown count or for_each", NoAbout)}
          ELSE {})
       \cup
       (IF c.forceReplace # {}
          THEN {Diag("error", "Cannot use forced replacement with unknown count or for_each", NoAbout)}
          ELSE {})

\* dynamicExpandPartial plans with -target and -replace while a count is
\* unknown: it rejects nothing
PartialRejects(c, partial) ==
  IF c.variant = "experiment" THEN ExperimentRejects(c, partial) ELSE {}

\* the vertex of a known instance: dynamicExpandPartial keeps the settings of
\* the fully-known branch (create_before_destroy is honoured), the experiment
\* leaves them as TODO
PartialKnownNode(c, addr) ==
  IF c.variant = "experiment" THEN experimentKnownNode(c, addr)
  ELSE concreteResource(c, addr)

\* the four loops that add the nodes, and addRootNodeToGraph
ExperimentGraph(c, known, partial, orphans, maybe) ==
  {PartialKnownNode(c, a) : a \in known}
    \cup {experimentPartialNode(c, a) : a \in partial}
    \cup {experimentOrphanNode(c, a) : a \in orphans}
    \cup {experimentMaybeOrphanNode(c, a) : a \in maybe}
    \cup {rootNode}


(***************************************************************************)
(* The fully-known branch, piece by piece.                                 *)
(***************************************************************************)
\* an orphan scan with the "found" test inverted
ModuleOrphansInverted(c) == {i \in c.stateInsts : i[1] \in c.ans.knownInsts}

\* the scan of the state: resources whose module instance is not in the
\* current configuration
ModuleOrphans(c) == {i \in c.stateInsts : i[1] \notin c.ans.knownInsts}

\* expander.ExpandResource(resAddr)
ExpandResource(c, m) == {<<m, k>> : k \in KeysOf(c.ans.resExp[m])}

\* a mustHaveIndex without the test of a single instance that has a key
MustHaveIndexManyOnly(instanceAddrs) == Cardinality(instanceAddrs) # 1

\* mustHaveIndex of expandResourceInstances
MustHaveIndex(instanceAddrs) ==
  \/ Cardinality(instanceAddrs) # 1
  \/ \E a \in instanceAddrs : a[2] # NoKey

\* validForceReplaceTargets: one warning per keyless candidate address, naming
\* the instance addresses it offers instead
validForceReplaceTargets(c, instanceAddrs) ==
  { Diag("warning", "Incompletely-matched force-replace resource instance",
         <<candidateAddr, instanceAddrs>>) :
      candidateAddr \in {a \in c.forceReplace : a[2] = NoKey} }

\* TargetsTransformer on a subgraph of instance nodes: with targets given, only
\* the targeted vertices stay
TargetsTransformer(targets, nodes) ==
  IF targets = {} THEN nodes ELSE {v \in nodes : v.addr \in targets}

\* a subgraph whose RootTransformer adds a root vertex of its own
resourceInstanceSubgraphOwnRoot(c, m, instanceAddrs) ==
  LET present == {concreteResource(c, a) : a \in instanceAddrs}
      gone == {concreteResourceOrphan(c, a) :
                 a \in {i \in c.stateInsts : i[1] = m /\ i \notin instanceAddrs}}
  IN TargetsTransformer(c.targets, present \cup gone)
       \cup {Node("root", <<m, NoKey>>, FALSE, FALSE, {}, FALSE, FALSE, FALSE)}

\* resourceInstanceSubgraph: ResourceCountTransformer,
\* OrphanResourceInstanceCountTransformer, TargetsTransformer, RootTransformer
resourceInstanceSubgraph(c, m, instanceAddrs) ==
  LET present == {concreteResource(c, a) : a \in instanceAddrs}
      gone == {concreteResourceOrphan(c, a) :
                 a \in {i \in c.stateInsts : i[1] = m /\ i \notin instanceAddrs}}
  IN TargetsTransformer(c.targets, present \cup gone) \cup {rootNode}

\* dynamicExpand as a whole: the module orphans, the subgraph of every module
\* instance, and the root
KnownGraph(c) ==
  {concreteResourceOrphan(c, a) : a \in ModuleOrphans(c)}
    \cup UNION {resourceInstanceSubgraph(c, m, ExpandResource(c, m)) : m \in c.ans.knownInsts}
    \cup {rootNode}

(***************************************************************************)
(* The state locks.                                                        *)
(***************************************************************************)
\* ctx.State().Lock() / PrevRunState().Lock()
Lock(h, l) == h \cup {l}
\* an Unlock that is skipped
UnlockSkipped(h, l) == h

\* ctx.State().Unlock(), also when deferred
Unlock(h, l) == h \ {l}

(***************************************************************************)
(* Execution of the nodes of the expanded subgraph.                        *)
(***************************************************************************)
Call(addr, op, h) == [addr |-> addr, op |-> op, locked |-> h # {}]

\* the provider calls one vertex makes: a refresh unless skipRefresh, a plan
\* unless skipPlanChanges
NodeCalls(c, v, h) ==
  IF v.kind = "root" THEN {}
  ELSE (IF v.kind # "partial" /\ ~v.skipRefresh /\ v.addr \in c.stateInsts
          THEN {Call(v.addr, "ReadResource", h)} ELSE {})
       \cup
       (IF ~v.skipPlanChanges
          THEN {Call(v.addr, "PlanResourceChange", h)} ELSE {})

\* what an orphan plans: forget when a removed block with destroy = false
\* names its resource, destroy otherwise
OrphanAction(forget) == IF forget THEN "Forget" ELSE "Delete"

\* an orphan planned like an instance that is still declared
PlannedActionOrphanAsInstance(c, v) ==
  IF v.addr \notin c.stateInsts THEN "Create"
  ELSE IF c.flags.tainted \/ v.addr \in v.forceReplace
    THEN (IF v.ForceCreateBeforeDestroy THEN "CreateThenDelete" ELSE "DeleteThenCreate")
  ELSE "NoOp"

\* the action an instance vertex plans
PlannedAction(c, v) ==
  IF v.kind = "orphan" THEN OrphanAction(c.flags.forget)
  ELSE IF v.addr \notin c.stateInsts THEN "Create"
  ELSE IF c.flags.tainted \/ v.addr \in v.forceReplace
    THEN (IF v.ForceCreateBeforeDestroy THEN "CreateThenDelete" ELSE "DeleteThenCreate")
  ELSE "NoOp"

\* the Changes.Resources entries of the subgraph
NodeChanges(c, nodes) ==
  { [addr |-> v.addr, action |-> PlannedAction(c, v)] :
      v \in {x \in nodes : x.kind \in {"instance", "orphan"} /\ ~x.skipPlanChanges} }

\* the DeferredResources entries of the subgraph: one per partial-expanded vertex
NodeDeferred(c, nodes) ==
  { [addr |-> v.addr, reason |-> "InstanceCountUnknown", action |-> "Create"] :
      v \in {x \in nodes : x.kind = "partial" /\ ~x.skipPlanChanges} }

(***************************************************************************)
(* DynamicExpand as a state machine.                                       *)
(***************************************************************************)
XInit(configs) ==
  /\ cfg \in {c \in configs : ValidConfig(c)}
  /\ pc = "start"
  /\ held = {}
  /\ relocked = FALSE
  /\ todo = {}
  /\ knownAddrs = {}
  /\ partialExpandedAddrs = {}
  /\ orphanAddrs = {}
  /\ maybeOrphanAddrs = {}
  /\ g = {}
  /\ ret = "none"
  /\ diags = {}
  /\ calls = {}
  /\ changes = {}
  /\ deferred = {}

NextModule == CHOOSE m \in todo : \A o \in todo : m <= o

EvalError == Diag("error", "Invalid count argument", NoAbout)

\* validateMetaSelfRef on n.Config.Count and n.Config.ForEach
validateMetaSelfRef(c) ==
  IF c.fault = "selfRef"
  THEN {Diag("error", "Self-referential block", NoAbout)}
  ELSE {}

\* expandResourceImports: the import targets that are not yet in the state,
\* or the error of the import block that fails to evaluate
expandResourceImports(c) ==
  IF c.fault = "importExpand"
  THEN [imports |-> {},
        diags |-> {Diag("error", "Invalid import id argument", NoAbout)}]
  ELSE [imports |-> c.importTargets \ c.stateInsts, diags |-> {}]

\* validateExpandedImportTargets
validateExpandedImportTargets(expandedImports, expandedInstances) ==
  IF expandedImports \subseteq expandedInstances
  THEN {}
  ELSE {Diag("error", "Configuration for import target does not exist",
             NoAbout)}

\* dynamicExpand: what follows the expansion of every module instance:
\* nil if its own diagnostics hold an error, else the graph together with
\* what validateExpandedImportTargets says
dynamicExpandEnd(c, ds, expandedInstances) ==
  IF HasErrors(ds \ expandResourceImports(c).diags)
  THEN [graph |-> FALSE, diags |-> ds]
  ELSE [graph |-> TRUE,
        diags |-> ds \cup validateExpandedImportTargets(
                             expandResourceImports(c).imports,
                             expandedInstances)]

\* DynamicExpand: nil for a self-reference, else the imports are expanded
\* and dynamicExpand begins: "Lock the state while we inspect it"
KnownLockState ==
  /\ pc = "start" /\ cfg.variant = "known"
  /\ IF HasErrors(validateMetaSelfRef(cfg))
       THEN /\ diags' = diags \cup validateMetaSelfRef(cfg)
            /\ ret' = "nil" /\ pc' = "done"
            /\ UNCHANGED <<held, relocked>>
       ELSE /\ diags' = diags \cup expandResourceImports(cfg).diags
            /\ held' = Lock(held, "State")
            /\ relocked' = (relocked \/ "State" \in held)
            /\ pc' = "inspect"
            /\ UNCHANGED ret
  /\ UNCHANGED <<cfg, todo, knownAddrs, partialExpandedAddrs, orphanAddrs,
                 maybeOrphanAddrs, g, calls, changes, deferred>>
  /\ UNCHANGED exceptX

\* dynamicExpand: collect the module orphans, release the lock, add their nodes
KnownInspect ==
  /\ pc = "inspect"
  /\ orphanAddrs' = ModuleOrphans(cfg)
  /\ held' = Unlock(held, "State")
  /\ g' = {concreteResourceOrphan(cfg, a) : a \in ModuleOrphans(cfg)}
  /\ todo' = cfg.ans.knownInsts
  /\ pc' = "modules"
  /\ UNCHANGED <<cfg, relocked, knownAddrs, partialExpandedAddrs,
                 maybeOrphanAddrs, ret, diags, calls, changes, deferred>>
  /\ UNCHANGED exceptX

\* expandResourceInstances up to the lock of resourceInstanceSubgraph
KnownExpandModule ==
  /\ pc = "modules" /\ todo # {}
  /\ IF NextModule \in cfg.ans.evalErr
       THEN /\ diags' = diags \cup {EvalError}
            /\ todo' = todo \ {NextModule}
            /\ pc' = "modules"
            /\ UNCHANGED <<held, relocked>>
       ELSE /\ diags' = diags \cup
                 (IF MustHaveIndex(ExpandResource(cfg, NextModule))
                    THEN validForceReplaceTargets(cfg, ExpandResource(cfg, NextModule))
                    ELSE {})
            /\ held' = Lock(held, "State")
            /\ relocked' = (relocked \/ "State" \in held)
            /\ pc' = "subgraph"
            /\ UNCHANGED todo
  /\ UNCHANGED <<cfg, knownAddrs, partialExpandedAddrs, orphanAddrs,
                 maybeOrphanAddrs, g, ret, calls, changes, deferred>>
  /\ UNCHANGED exceptX

\* resourceInstanceSubgraph under the lock, its deferred Unlock, and g.Subsume
KnownSubgraph ==
  /\ pc = "subgraph"
  /\ g' = g \cup resourceInstanceSubgraph(cfg, NextModule, ExpandResource(cfg, NextModule))
  /\ knownAddrs' = knownAddrs \cup ExpandResource(cfg, NextModule)
  /\ held' = Unlock(held, "State")
  /\ todo' = todo \ {NextModule}
  /\ pc' = "modules"
  /\ UNCHANGED <<cfg, relocked, partialExpandedAddrs, orphanAddrs,
                 maybeOrphanAddrs, ret, diags, calls, changes, deferred>>
  /\ UNCHANGED exceptX

\* dynamicExpand: "if diags.HasErrors() return nil", else the import targets
\* are validated and addRootNodeToGraph
KnownFinish ==
  /\ pc = "modules" /\ todo = {}
  /\ IF dynamicExpandEnd(cfg, diags, knownAddrs).graph
       THEN g' = g \cup {rootNode} /\ ret' = "graph"
       ELSE g' = {} /\ ret' = "nil"
  /\ diags' = dynamicExpandEnd(cfg, diags, knownAddrs).diags
  /\ pc' = "done"
  /\ UNCHANGED <<cfg, held, relocked, todo, knownAddrs, partialExpandedAddrs,
                 orphanAddrs, maybeOrphanAddrs, calls, changes, deferred>>
  /\ UNCHANGED exceptX

\* the partially-known branch: resolve the expansion under every module prefix
PartialResolve ==
  /\ pc = "start" /\ cfg.variant \in {"experiment", "partial"}
  /\ IF HasErrors(validateMetaSelfRef(cfg))
       THEN /\ diags' = diags \cup validateMetaSelfRef(cfg)
            /\ UNCHANGED <<knownAddrs, partialExpandedAddrs>>
       ELSE /\ knownAddrs' = ResolveKnownAddrs(cfg)
            /\ partialExpandedAddrs' = ResolvePartialAddrs(cfg)
            /\ diags' = diags \cup
                 (IF cfg.ans.knownInsts \cap cfg.ans.evalErr # {}
                    THEN {EvalError} ELSE {})
  /\ IF HasErrors(diags')
       THEN pc' = "done" /\ ret' = "nil"
       ELSE pc' = "scan" /\ ret' = ret
  /\ UNCHANGED <<cfg, held, relocked, todo, orphanAddrs, maybeOrphanAddrs, g,
                 calls, changes, deferred>>
  /\ UNCHANGED exceptX

\* the inline function: ss.Lock()
PartialLockState ==
  /\ pc = "scan"
  /\ held' = Lock(held, "PrevRunState")
  /\ relocked' = (relocked \/ "PrevRunState" \in held)
  /\ pc' = "classify"
  /\ UNCHANGED <<cfg, todo, knownAddrs, partialExpandedAddrs, orphanAddrs,
                 maybeOrphanAddrs, g, ret, diags, calls, changes, deferred>>
  /\ UNCHANGED exceptX

\* the inline function: classify the prior instances, then the deferred Unlock
PartialClassify ==
  /\ pc = "classify"
  /\ maybeOrphanAddrs' =
       ClassifyMaybeOrphans(cfg.stateInsts, partialExpandedAddrs, knownAddrs)
  /\ orphanAddrs' = ClassifyOrphans(cfg.stateInsts, partialExpandedAddrs, knownAddrs)
  /\ held' = Unlock(held, "PrevRunState")
  /\ pc' = "build"
  /\ UNCHANGED <<cfg, relocked, todo, knownAddrs, partialExpandedAddrs, g, ret,
                 diags, calls, changes, deferred>>
  /\ UNCHANGED exceptX

\* the rejected options, then the graph
PartialBuild ==
  /\ pc = "build"
  /\ diags' = diags \cup PartialRejects(cfg, partialExpandedAddrs)
  /\ IF HasErrors(diags')
       THEN g' = {} /\ ret' = "nil"
       ELSE /\ g' = ExperimentGraph(cfg, knownAddrs, partialExpandedAddrs,
                                    orphanAddrs, maybeOrphanAddrs)
            /\ ret' = "graph"
  /\ pc' = "done"
  /\ UNCHANGED <<cfg, held, relocked, todo, knownAddrs, partialExpandedAddrs,
                 orphanAddrs, maybeOrphanAddrs, calls, changes, deferred>>
  /\ UNCHANGED exceptX

\* a resource that is in the state and no longer declared: the plan graph
\* holds one orphan vertex per instance, and nothing is expanded
PlanRemoved ==
  /\ pc = "start" /\ cfg.variant = "removed"
  /\ orphanAddrs' = cfg.stateInsts
  /\ g' = {removedOrphanNode(cfg, a) : a \in cfg.stateInsts}
  /\ ret' = "graph"
  /\ pc' = "done"
  /\ UNCHANGED <<cfg, held, relocked, todo, knownAddrs, partialExpandedAddrs,
                 maybeOrphanAddrs, diags, calls, changes, deferred>>
  /\ UNCHANGED exceptX

\* the walker visits the vertices of the returned subgraph
WalkSubgraph ==
  /\ pc = "done" /\ ret = "graph"
  /\ calls' = calls \cup UNION {NodeCalls(cfg, v, held) : v \in g}
  /\ changes' = NodeChanges(cfg, g)
  /\ deferred' = NodeDeferred(cfg, g)
  /\ pc' = "walked"
  /\ UNCHANGED <<cfg, held, relocked, todo, knownAddrs, partialExpandedAddrs,
                 orphanAddrs, maybeOrphanAddrs, g, ret, diags>>
  /\ UNCHANGED exceptX



\* no plan round and no walk is under way
PIdle ==
  /\ popts = [targets |-> {}, allowed |-> TRUE, defer |-> "none"]
  /\ pstate = {} /\ pround = 0 /\ ppc = "idle" /\ pcount = ExpSingle
  /\ pcalls = {} /\ pchanges = {} /\ pdeferred = {} /\ pdefRes = {}
  /\ pdiags = {} /\ papplied = {} /\ pcomplete = FALSE
  /\ plast = [count |-> ExpSingle, applied |-> FALSE]

WIdle ==
  /\ wedges = {} /\ wlimit = 1 /\ wstatus = <<>>

\* no test file is being run
FIdle ==
  /\ fruns = <<>> /\ fidx = 1 /\ fpc = "idle"
  /\ RelevantStates = <<>> /\ runStatus = <<>> /\ fileStatus = "pending"
  /\ fqueue = <<>> /\ fdestroys = <<>> /\ freports = {}

\* no test run is waiting for an operation
TIdle ==
  /\ operation = "validate" /\ created = {}
  /\ StoppedCtx = FALSE /\ CancelledCtx = FALSE /\ runningCtx = FALSE
  /\ waitAt = "none" /\ finished = FALSE /\ cancelled = FALSE
  /\ stopCalled = FALSE /\ summaries = {} /\ updates = 0
  /\ updatesSinceCancel = 0

XNext ==
  \/ KnownLockState \/ KnownInspect \/ KnownExpandModule \/ KnownSubgraph
  \/ KnownFinish
  \/ PartialResolve \/ PartialLockState \/ PartialClassify \/ PartialBuild
  \/ WalkSubgraph

\* every branch, with the default node settings
ExpandInit ==
  /\ XInit(Configs({"known", "experiment", "partial"}, {DefaultFlags},
                   TargetChoices, ForceReplaceChoices))
  /\ PIdle /\ WIdle /\ TIdle /\ FIdle /\ CIdle /\ EIdle /\ RIdle /\ SIdle /\ OIdle /\ LIdle /\ DIdle /\ VIdle

SpecExpand == ExpandInit /\ [][XNext]_vars

\* every branch, with import blocks and with configurations DynamicExpand
\* rejects
ImportsInit ==
  /\ XInit(WithImports(Configs({"known", "experiment", "partial"},
                               {DefaultFlags}, {{}}, {{}})))
  /\ PIdle /\ WIdle /\ TIdle /\ FIdle /\ CIdle /\ EIdle /\ RIdle /\ SIdle /\ OIdle /\ LIdle /\ DIdle /\ VIdle

SpecImports == ImportsInit /\ [][XNext]_vars

\* the partially-known branches, with every refresh/plan setting and tainted
\* prior objects
SettingsFlags ==
  [skipRefresh : BOOLEAN, skipPlanChanges : BOOLEAN,
   forceCBD : {"unset"}, configCBD : {FALSE}, tainted : BOOLEAN,
   forget : {FALSE}]

NodesInit ==
  /\ XInit(Configs({"known", "experiment", "partial"}, SettingsFlags, {{}},
                   ForceReplaceChoices))
  /\ PIdle /\ WIdle /\ TIdle /\ FIdle /\ CIdle /\ EIdle /\ RIdle /\ SIdle /\ OIdle /\ LIdle /\ DIdle /\ VIdle

SpecNodes == NodesInit /\ [][XNext]_vars

\* the branches of node_resource_plan.go with every lifecycle setting:
\* create_before_destroy in the configuration or not, ModifyCreateBeforeDestroy
\* not called or called with true (the value a dependency that requires
\* create_before_destroy passes), prior objects tainted or not
LifecycleFlags ==
  [skipRefresh : {FALSE}, skipPlanChanges : {FALSE},
   forceCBD : {"unset", "true"}, configCBD : BOOLEAN, tainted : BOOLEAN,
   forget : {FALSE}]

LifecycleInit ==
  /\ XInit(Configs({"known", "partial"}, LifecycleFlags, {{}},
                   {{}, {<<1, 0>>}}))
  /\ PIdle /\ WIdle /\ TIdle /\ FIdle /\ CIdle /\ EIdle /\ RIdle /\ SIdle /\ OIdle /\ LIdle /\ DIdle /\ VIdle

SpecLifecycle == LifecycleInit /\ [][XNext]_vars

\* orphans of every origin: instances of vanished module instances, instances
\* beyond the new count, and instances of resources that are no longer
\* declared, with or without a removed block (destroy = false) naming them;
\* prior objects may be tainted, and -replace may name an orphan
OrphanFlags ==
  [skipRefresh : {FALSE}, skipPlanChanges : {FALSE},
   forceCBD : {"unset"}, configCBD : {FALSE}, tainted : BOOLEAN,
   forget : BOOLEAN]

OrphansInit ==
  /\ XInit(Configs({"known", "experiment", "partial", "removed"}, OrphanFlags,
                   {{}}, {{}, {<<1, 0>>}}))
  /\ PIdle /\ WIdle /\ TIdle /\ FIdle /\ CIdle /\ EIdle /\ RIdle /\ SIdle /\ OIdle /\ LIdle /\ DIdle /\ VIdle

OrphansNext == XNext \/ PlanRemoved

SpecOrphans == OrphansInit /\ [][OrphansNext]_vars

(***************************************************************************)
(* Plan rounds.  The configuration is the one of resourceCountTest:        *)
(*   test.a; test.b with count = var.resource_count, naming test.a;        *)
(*   test.c naming test.a and test.b.                                      *)
(* An instance address of a round is <<resource, instance key>>.           *)
(***************************************************************************)
\* the plan/apply rounds of one run of the model
MaxRounds == 2

Resources == {"a", "b", "c"}

\* the references of the configuration
Deps == [r \in Resources |->
           IF r = "b" THEN {"a"} ELSE IF r = "c" THEN {"a", "b"} ELSE {}]

\* the operation the mock provider answers with Deferred for test.a: none, or
\* the read of a prior object named "deferred_read", the plan of an object
\* named "deferred_resource_change", the import of the id "deferred", or the
\* read of the data source named "deferred_read" (test.a is then data.test.a)
DeferOps ==
  {"none", "ReadResource", "PlanResourceChange", "ImportResourceState", "ReadDataSource"}

\* PlanOpts.Targets: nothing, test.a alone, or test.c (with what it depends on)
PlanTargetChoices == {{}, {"a"}, {"c"}}

\* the prior state of the first round: empty, or left by an earlier apply
InitialStates ==
  {{}, {<<"a", NoKey>>, <<"b", 0>>, <<"b", 1>>, <<"c", NoKey>>}}

\* the repetition of a resource in this round
RExp(r) == IF r = "b" THEN pcount ELSE ExpSingle

\* the expanding node of resource r: with deferrals allowed DynamicExpand takes
\* the partially-known branch, else the fully-known one
RCfg(r) ==
  [variant |-> IF popts.allowed THEN "partial" ELSE "known",
   ans |-> [modUnknown |-> FALSE, knownInsts |-> {1},
            resExp |-> [m \in ModKeys |-> IF m = 1 THEN RExp(r) ELSE ExpSingle],
            evalErr |-> {}],
   stateInsts |-> {<<1, i[2]>> : i \in {x \in pstate : x[1] = r}},
   targets |-> {}, forceReplace |-> {}, flags |-> DefaultFlags,
   importTargets |-> {}, fault |-> "none"]

\* DynamicExpand of resource r
RGraph(r) ==
  LET c == RCfg(r)
      k == ResolveKnownAddrs(c)
      p == ResolvePartialAddrs(c)
  IN IF c.variant = "known" THEN KnownGraph(c)
     ELSE ExperimentGraph(c, k, p, ClassifyOrphans(c.stateInsts, p, k),
                          ClassifyMaybeOrphans(c.stateInsts, p, k))

\* test.a is a data source in the data-read scenario
IsData(r) == r = "a" /\ popts.defer = "ReadDataSource"

\* the import block of test.a; imports of addresses already in state are
\* filtered out
HasImport(r, v) ==
  /\ r = "a" /\ popts.defer = "ImportResourceState"
  /\ v.kind = "instance" /\ v.addr \notin RCfg(r).stateInsts

\* the provider calls of one vertex of resource r
VertexOps(r, v) ==
  IF IsData(r) THEN (IF v.kind = "root" THEN {} ELSE {"ReadDataSource"})
  ELSE {c.op : c \in NodeCalls(RCfg(r), v, {})}
         \cup (IF HasImport(r, v) THEN {"ImportResourceState"} ELSE {})

\* the mock provider: does one of the calls of this vertex come back deferred?
ProviderDefers(r, v) == r = "a" /\ popts.defer \in VertexOps(r, v)

\* deferrals.ShouldDeferResourceInstanceChanges: a dependency is deferred
UpstreamDeferred(r, defRes) == Deps[r] \cap defRes # {}

\* the action of a vertex; a prior object whose read was deferred is planned
\* as an update
VertexAction(r, v) ==
  IF popts.defer = "ReadResource" /\ ProviderDefers(r, v) /\ v.kind = "instance"
    THEN "Update"
  ELSE PlannedAction(RCfg(r), v)

\* vertices that plan a change of their own
Planning(r) ==
  {v \in RGraph(r) : v.kind \in {"instance", "orphan"} /\ ~v.skipPlanChanges /\ ~IsData(r)}

\* the DeferredResources entries resource r reports
VisitDeferred(r, defRes) ==
  { [addr |-> <<r, d.addr[2]>>, reason |-> d.reason, action |-> d.action] :
      d \in NodeDeferred(RCfg(r), RGraph(r)) }
  \cup
  { [addr |-> <<r, v.addr[2]>>,
     reason |-> IF ProviderDefers(r, v) THEN "ProviderConfigUnknown" ELSE "DeferredPrereq",
     action |-> VertexAction(r, v)] :
      v \in {x \in Planning(r) : ProviderDefers(r, x) \/ UpstreamDeferred(r, defRes)} }

\* changes written without asking the deferral tracker about dependencies
VisitChangesIgnoringUpstream(r, defRes) ==
  { [addr |-> <<r, v.addr[2]>>, action |-> VertexAction(r, v)] :
      v \in {x \in Planning(r) : ~ProviderDefers(r, x)} }

\* changes written even for the vertices the provider defers
VisitChangesIgnoringProvider(r, defRes) ==
  { [addr |-> <<r, v.addr[2]>>, action |-> VertexAction(r, v)] :
      v \in {x \in Planning(r) : ~UpstreamDeferred(r, defRes)} }

\* the Changes.Resources entries resource r writes
VisitChanges(r, defRes) ==
  { [addr |-> <<r, v.addr[2]>>, action |-> VertexAction(r, v)] :
      v \in {x \in Planning(r) : ~ProviderDefers(r, x) /\ ~UpstreamDeferred(r, defRes)} }

\* the provider calls resource r makes
VisitCalls(r) ==
  UNION { {[addr |-> <<r, v.addr[2]>>, op |-> o] : o \in VertexOps(r, v)} : v \in RGraph(r) }

\* is anything of resource r deferred after its visit?
VisitDefers(r, defRes) ==
  \/ VisitDeferred(r, defRes) # {}
  \/ \E v \in RGraph(r) : ProviderDefers(r, v)

DeferralForbidden ==
  Diag("error", "Provider deferred changes when Terraform did not allow deferrals", NoAbout)

\* a visit that never reports the forbidden deferral
VisitDiagsNone(r) == {}

\* the diagnostics of the visit of resource r
VisitDiags(r) ==
  IF ~popts.allowed /\ (\E v \in RGraph(r) : ProviderDefers(r, v))
    THEN {DeferralForbidden} ELSE {}

\* targeting keeps the targets and what they depend on
RECURSIVE Upstream(_)
Upstream(r) == Deps[r] \cup UNION {Upstream(d) : d \in Deps[r]}

Targeted(r) ==
  popts.targets = {} \/ \E t \in popts.targets : r = t \/ r \in Upstream(t)

\* a Complete that looks at targeting and errors only
PlanCompleteIgnoringDeferred(deferredEntries, defRes, targets, ds) ==
  /\ targets = {}
  /\ ~HasErrors(ds)

\* Plan.Complete
PlanComplete(deferredEntries, defRes, targets, ds) ==
  /\ deferredEntries = {}
  /\ defRes = {}
  /\ targets = {}
  /\ ~HasErrors(ds)

\* no expansion is under way
XIdle ==
  /\ cfg = [variant |-> "known",
            ans |-> [modUnknown |-> FALSE, knownInsts |-> {},
                     resExp |-> [m \in ModKeys |-> ExpSingle], evalErr |-> {}],
            stateInsts |-> {}, targets |-> {}, forceReplace |-> {},
            flags |-> DefaultFlags, importTargets |-> {}, fault |-> "none"]
  /\ pc = "idle" /\ held = {} /\ relocked = FALSE /\ todo = {}
  /\ knownAddrs = {} /\ partialExpandedAddrs = {} /\ orphanAddrs = {}
  /\ maybeOrphanAddrs = {} /\ g = {} /\ ret = "none" /\ diags = {}
  /\ calls = {} /\ changes = {} /\ deferred = {}

PInit ==
  /\ popts \in [targets : PlanTargetChoices, allowed : BOOLEAN, defer : DeferOps]
  /\ pstate \in InitialStates
  /\ pround = 0 /\ ppc = "idle" /\ pcount = ExpSingle
  /\ pcalls = {} /\ pchanges = {} /\ pdeferred = {} /\ pdefRes = {}
  /\ pdiags = {} /\ papplied = {} /\ pcomplete = FALSE
  /\ plast = [count |-> ExpSingle, applied |-> FALSE]

\* the values var.resource_count can take in a round; without deferrals an
\* unknown count is an error of the fully-known branch, which is not a round
CountInputs ==
  {ExpCount(n) : n \in 0 .. MaxCount} \cup (IF popts.allowed THEN {ExpUnknown} ELSE {})

\* a plan that begins with the changes and the deferral tracker of the round
\* before
PlanStartKeepingTracker ==
  /\ ppc = "idle" /\ pround < MaxRounds
  /\ pcount' \in CountInputs
  /\ pround' = pround + 1
  /\ ppc' = "a"
  /\ pcalls' = {} /\ pdiags' = {} /\ papplied' = {} /\ pcomplete' = FALSE
  /\ UNCHANGED <<popts, pstate, plast, pchanges, pdeferred, pdefRes>>
  /\ UNCHANGED exceptP

\* Context.Plan begins: fresh changes, fresh deferral tracker
PlanStart ==
  /\ ppc = "idle" /\ pround < MaxRounds
  /\ pcount' \in CountInputs
  /\ pround' = pround + 1
  /\ ppc' = "a"
  /\ pcalls' = {} /\ pchanges' = {} /\ pdeferred' = {} /\ pdefRes' = {}
  /\ pdiags' = {} /\ papplied' = {} /\ pcomplete' = FALSE
  /\ UNCHANGED <<popts, pstate, plast>>
  /\ UNCHANGED exceptP

AfterResource(r) == IF r = "a" THEN "b" ELSE IF r = "b" THEN "c" ELSE "finish"

\* the walk reaches resource ppc: DynamicExpand, then its vertices execute
VisitResource ==
  /\ ppc \in Resources
  /\ IF Targeted(ppc)
       THEN /\ pcalls' = pcalls \cup VisitCalls(ppc)
            /\ pdiags' = pdiags \cup VisitDiags(ppc)
            /\ IF HasErrors(VisitDiags(ppc))
                 THEN /\ ppc' = "failed"
                      /\ UNCHANGED <<pchanges, pdeferred, pdefRes>>
                 ELSE /\ pchanges' = pchanges \cup VisitChanges(ppc, pdefRes)
                      /\ pdeferred' = pdeferred \cup VisitDeferred(ppc, pdefRes)
                      /\ pdefRes' = pdefRes \cup
                           (IF VisitDefers(ppc, pdefRes) THEN {ppc} ELSE {})
                      /\ ppc' = AfterResource(ppc)
       ELSE /\ ppc' = AfterResource(ppc)
            /\ UNCHANGED <<pcalls, pdiags, pchanges, pdeferred, pdefRes>>
  /\ UNCHANGED <<popts, pstate, pround, pcount, papplied, pcomplete, plast>>
  /\ UNCHANGED exceptP

\* the walk is over: the plan is assembled
PlanFinish ==
  /\ ppc = "finish"
  /\ pcomplete' = PlanComplete(pdeferred, pdefRes, popts.targets, pdiags)
  /\ ppc' = "planned"
  /\ UNCHANGED <<popts, pstate, pround, pcount, pcalls, pchanges, pdeferred,
                 pdefRes, pdiags, papplied, plast>>
  /\ UNCHANGED exceptP

\* an apply that leaves the state as it was
ApplyStateUnchanged(state, chs) == state

\* the state an apply of these changes leaves
ApplyState(state, chs) ==
  (state \cup {ch.addr : ch \in {x \in chs : x.action = "Create"}})
    \ {ch.addr : ch \in {x \in chs : x.action = "Delete"}}

\* an apply that also carries out what the plan holds as deferred
AppliedChangesWithDeferred(chs, defs) ==
  {ch.addr : ch \in {x \in chs : x.action # "NoOp"}}
    \cup {d.addr : d \in {x \in defs : x.action # "NoOp"}}

\* provider.appliedChanges: the addresses ApplyResourceChange is called for
AppliedChanges(chs, defs) ==
  {ch.addr : ch \in {x \in chs : x.action # "NoOp"}}

\* Context.Apply of the plan: only plan.Changes is applied
Apply ==
  /\ ppc = "planned"
  /\ papplied' = AppliedChanges(pchanges, pdeferred)
  /\ pstate' = ApplyState(pstate, pchanges)
  /\ plast' = [count |-> pcount, applied |-> TRUE]
  /\ ppc' = "idle"
  /\ UNCHANGED <<popts, pround, pcount, pcalls, pchanges, pdeferred, pdefRes,
                 pdiags, pcomplete>>
  /\ UNCHANGED exceptP

\* "Don't run an apply for this cycle", or the plan had errors
Discard ==
  /\ ppc \in {"planned", "failed"}
  /\ plast' = [count |-> pcount, applied |-> FALSE]
  /\ ppc' = "idle"
  /\ UNCHANGED <<popts, pstate, pround, pcount, pcalls, pchanges, pdeferred,
                 pdefRes, pdiags, papplied, pcomplete>>
  /\ UNCHANGED exceptP

PNext == PlanStart \/ VisitResource \/ PlanFinish \/ Apply \/ Discard

\* plan/apply rounds over the three-resource configuration
PlanInit == XIdle /\ PInit /\ WIdle /\ TIdle /\ FIdle /\ CIdle /\ EIdle /\ RIdle /\ SIdle /\ OIdle /\ LIdle /\ DIdle /\ VIdle

SpecPlan == PlanInit /\ [][PNext]_vars

(***************************************************************************)
(* The graph walk over a finished graph.                                   *)
(***************************************************************************)
\* the most visits that run at once
MaxParallelism == 2

WalkNodes == {"a", "b", "c", "d"}

\* the edges a graph can have: from a vertex to a later one, so that every
\* subset is acyclic
WalkOrder == <<"a", "b", "c", "d">>
Rank(n) == CHOOSE i \in 1 .. Len(WalkOrder) : WalkOrder[i] = n
PossibleEdges == {e \in WalkNodes \X WalkNodes : Rank(e[1]) < Rank(e[2])}

\* the dependency-edge predecessors of a vertex
Preds(n) == {e[1] : e \in {x \in wedges : x[2] = n}}

Running == {n \in WalkNodes : wstatus[n] = "running"}

\* a frontier that does not wait for predecessors
ReadyWithoutPreds(n) == wstatus[n] = "pending"

\* a vertex is ready when every predecessor has completed successfully
Ready(n) ==
  /\ wstatus[n] = "pending"
  /\ \A q \in Preds(n) : wstatus[q] = "done"

WInit ==
  /\ wedges \in SUBSET PossibleEdges
  /\ wlimit \in 1 .. MaxParallelism
  /\ wstatus = [n \in WalkNodes |-> "pending"]

\* a worker takes a ready vertex from the frontier
WalkStart(n) ==
  /\ Ready(n)
  /\ Cardinality(Running) < wlimit
  /\ wstatus' = [wstatus EXCEPT ![n] = "running"]
  /\ UNCHANGED <<wedges, wlimit>>
  /\ UNCHANGED exceptW

\* the visit returns without error diagnostics
WalkDone(n) ==
  /\ wstatus[n] = "running"
  /\ wstatus' = [wstatus EXCEPT ![n] = "done"]
  /\ UNCHANGED <<wedges, wlimit>>
  /\ UNCHANGED exceptW

\* the visit returns error diagnostics
WalkFail(n) ==
  /\ wstatus[n] = "running"
  /\ wstatus' = [wstatus EXCEPT ![n] = "failed"]
  /\ UNCHANGED <<wedges, wlimit>>
  /\ UNCHANGED exceptW

\* the dependents of a failed or skipped vertex are not visited
WalkSkip(n) ==
  /\ wstatus[n] = "pending"
  /\ \E q \in Preds(n) : wstatus[q] \in {"failed", "skipped"}
  /\ wstatus' = [wstatus EXCEPT ![n] = "skipped"]
  /\ UNCHANGED <<wedges, wlimit>>
  /\ UNCHANGED exceptW

WNext ==
  \E n \in WalkNodes : WalkStart(n) \/ WalkDone(n) \/ WalkFail(n) \/ WalkSkip(n)

\* walks of every graph over four vertices, under every parallelism limit
WalkInit == XIdle /\ PIdle /\ WInit /\ TIdle /\ FIdle /\ CIdle /\ EIdle /\ RIdle /\ SIdle /\ OIdle /\ LIdle /\ DIdle /\ VIdle

SpecWalk == WalkInit /\ [][WNext]_vars

(***************************************************************************)
(* TestFileRunner.wait: the runner starts an operation in a goroutine that *)
(* ends runningCtx when it exits, and waits for it in a select loop that   *)
(* also listens for the two interrupts and a two-second timer.             *)
(***************************************************************************)
\* the progress updates one wait prints at most
MaxUpdates == 2

\* validate, plan, apply and destroy each start an operation and call wait
WaitCallers == {"validate", "plan", "apply", "destroy"}

\* the Create changes of the plan, copied before the apply starts
CreatedObjects == {"test.a", "test.b"}

\* the interrupts arrive in order: the first ends StoppedCtx, the second
\* CancelledCtx; either may have arrived before this wait began
TInit ==
  /\ operation \in WaitCallers
  /\ created \in (IF operation = "apply" THEN SUBSET CreatedObjects ELSE {{}})
  /\ StoppedCtx \in BOOLEAN /\ CancelledCtx \in BOOLEAN
  /\ CancelledCtx => StoppedCtx
  /\ runningCtx = FALSE
  /\ waitAt = "loop" /\ finished = FALSE /\ cancelled = FALSE
  /\ stopCalled = FALSE /\ summaries = {} /\ updates = 0
  /\ updatesSinceCancel = 0

\* the select loops of wait, handleStopped and handleCancelled
Selecting == waitAt \in {"loop", "handleStopped", "handleCancelled"}

\* a handler that gives up the wait once the hard cancel is reported
AfterHandleCancelledReturn == "returned"

\* handleCancelled ends in its own "for !finished" select loop
AfterHandleCancelled == "handleCancelled"

\* the user presses interrupt: the first is a stop, the second a cancel
Interrupt ==
  /\ (waitAt # "none" \/ fpc \notin {"idle", "done"}) /\ ~CancelledCtx
  /\ IF StoppedCtx THEN CancelledCtx' = TRUE /\ UNCHANGED StoppedCtx
                   ELSE StoppedCtx' = TRUE /\ UNCHANGED CancelledCtx
  /\ UNCHANGED <<operation, created, runningCtx, waitAt, finished, cancelled,
                 stopCalled, summaries, updates, updatesSinceCancel>>
  /\ UNCHANGED exceptT

\* the operation's goroutine exits: "defer done()"
OperationExits ==
  /\ waitAt # "none" /\ ~runningCtx
  /\ runningCtx' = TRUE
  /\ UNCHANGED <<operation, created, StoppedCtx, CancelledCtx, waitAt, finished,
                 cancelled, stopCalled, summaries, updates, updatesSinceCancel>>
  /\ UNCHANGED exceptT

\* case <-time.After(2 * time.Second): print an update while waiting
ProgressUpdate ==
  /\ Selecting /\ updates < MaxUpdates
  /\ updates' = updates + 1
  /\ updatesSinceCancel' =
       IF waitAt = "handleCancelled" THEN updatesSinceCancel + 1
       ELSE updatesSinceCancel
  /\ UNCHANGED <<operation, created, StoppedCtx, CancelledCtx, runningCtx,
                 waitAt, finished, cancelled, stopCalled, summaries>>
  /\ UNCHANGED exceptT

\* case <-runner.Suite.StoppedCtx.Done(): handleStopped()
HandleStopped ==
  /\ waitAt = "loop" /\ StoppedCtx
  /\ waitAt' = "handleStopped"
  /\ UNCHANGED <<operation, created, StoppedCtx, CancelledCtx, runningCtx,
                 finished, cancelled, stopCalled, summaries, updates,
                 updatesSinceCancel>>
  /\ UNCHANGED exceptT

\* case <-runner.Suite.CancelledCtx.Done(): handleCancelled(), from the main
\* loop or from handleStopped: the summary, cancelled = true, go ctx.Stop()
HandleCancelled ==
  /\ waitAt \in {"loop", "handleStopped"} /\ CancelledCtx
  /\ summaries' = summaries \cup {[operation |-> operation, created |-> created]}
  /\ cancelled' = TRUE
  /\ stopCalled' = TRUE
  /\ waitAt' = AfterHandleCancelled
  /\ UNCHANGED <<operation, created, StoppedCtx, CancelledCtx, runningCtx,
                 finished, updates, updatesSinceCancel>>
  /\ UNCHANGED exceptT

\* case <-runningCtx.Done(): finished = true; every loop ends and wait returns
WaitFinished ==
  /\ Selecting /\ runningCtx
  /\ finished' = TRUE
  /\ waitAt' = "returned"
  /\ UNCHANGED <<operation, created, StoppedCtx, CancelledCtx, runningCtx,
                 cancelled, stopCalled, summaries, updates, updatesSinceCancel>>
  /\ UNCHANGED exceptT

TNext ==
  \/ Interrupt \/ OperationExits \/ ProgressUpdate
  \/ HandleStopped \/ HandleCancelled \/ WaitFinished

\* one wait of the test runner
WaitInit == XIdle /\ PIdle /\ WIdle /\ TInit /\ FIdle /\ CIdle /\ EIdle /\ RIdle /\ SIdle /\ OIdle /\ LIdle /\ DIdle /\ VIdle

SpecWait == WaitInit /\ [][TNext]_vars

(***************************************************************************)
(* TestFileRunner.Test and cleanup: the run blocks of a file execute in    *)
(* order, each through validate, plan and (for an apply run) apply; then   *)
(* cleanup destroys what the runs left in the tracked states.  Every       *)
(* operation is waited for by wait, modelled above.                        *)
(***************************************************************************)
\* the run blocks of one file
MaxRuns == 2

\* MainStateIdentifier and the sources of two modules under test
StateKeys == {"main", "a", "b"}

RunBlocks == [command : {"plan", "apply"}, key : StateKeys]

FileRuns == UNION {[1 .. n -> RunBlocks] : n \in 0 .. MaxRuns}

\* a runner that never sees the stop request
StoppedNever == FALSE

\* runner.Suite.Stopped / Cancelled are set with the contexts
Stopped == StoppedCtx
Cancelled == CancelledCtx

\* states.NewState() tracked with no run
NewState == [Run |-> 0, State |-> "empty"]

FInit ==
  /\ fruns \in FileRuns
  /\ fidx = 1 /\ fpc = "runs"
  /\ RelevantStates = ("main" :> NewState)
  /\ runStatus = [i \in 1 .. Len(fruns) |-> "pending"]
  /\ fileStatus = "ok"
  /\ fqueue = <<>> /\ fdestroys = <<>> /\ freports = {}

\* context.WithCancel, go func() { defer done(); ... }(), runner.wait(...)
StartWait(op, cr) ==
  /\ operation' = op /\ created' = cr
  /\ runningCtx' = FALSE /\ waitAt' = "loop" /\ finished' = FALSE
  /\ cancelled' = FALSE /\ stopCalled' = FALSE
  /\ UNCHANGED <<StoppedCtx, CancelledCtx, summaries, updates, updatesSinceCancel>>

\* the result of wait has been used and no further operation starts
EndWait ==
  /\ waitAt' = "none"
  /\ UNCHANGED <<operation, created, StoppedCtx, CancelledCtx, runningCtx,
                 finished, cancelled, stopCalled, summaries, updates,
                 updatesSinceCancel>>

\* run returns with this status; Test merges it into file.Status
RunEnds(status) ==
  /\ runStatus' = [runStatus EXCEPT ![fidx] = status]
  /\ fileStatus' = IF status = "error" THEN "error" ELSE fileStatus
  /\ fidx' = fidx + 1
  /\ fpc' = "runs"

\* the head of the loop of Test, down to the call of validate in run
RunNext ==
  /\ fpc = "runs" /\ fidx <= Len(fruns)
  /\ IF Cancelled
       THEN /\ fileStatus' = "error" /\ fpc' = "cleanup"
            /\ UNCHANGED <<fidx, RelevantStates, runStatus>>
            /\ UNCHANGED tvars
       ELSE IF Stopped \/ fileStatus = "error"
       THEN /\ runStatus' = [runStatus EXCEPT ![fidx] = "skip"]
            /\ fidx' = fidx + 1
            /\ UNCHANGED <<fpc, RelevantStates, fileStatus>>
            /\ UNCHANGED tvars
       ELSE /\ RelevantStates' =
                 IF fruns[fidx].key \in DOMAIN RelevantStates THEN RelevantStates
                 ELSE RelevantStates @@ (fruns[fidx].key :> NewState)
            /\ fpc' = "validate"
            /\ StartWait("validate", {})
            /\ UNCHANGED <<fidx, runStatus, fileStatus>>
  /\ UNCHANGED <<fruns, fqueue, fdestroys, freports>>
  /\ UNCHANGED exceptTF

\* Test after run has returned (state, updatedState): the tracked state and
\* its run change only when updatedState is set
TrackedAfterRunAlways(rs, key, idx, st, updatedState) ==
  [rs EXCEPT ![key] = [Run |-> idx, State |-> st]]

TrackedAfterRun(rs, key, idx, st, updatedState) ==
  IF updatedState THEN [rs EXCEPT ![key] = [Run |-> idx, State |-> st]]
  ELSE rs

\* run returns st with updatedState; without an apply st is the state run
\* was given
RunReturns(st, updatedState) ==
  LET key == fruns[fidx].key
  IN RelevantStates' =
       TrackedAfterRun(RelevantStates, key, fidx,
                       IF updatedState THEN st ELSE RelevantStates[key].State,
                       updatedState)

\* validate returns: an interrupted or failed validation ends the run
ValidateReturns ==
  /\ fpc = "validate" /\ waitAt = "returned"
  /\ \E ok \in BOOLEAN :
       IF cancelled \/ ~ok
         THEN RunEnds("error") /\ EndWait /\ RunReturns("empty", FALSE)
         ELSE /\ fpc' = "plan" /\ StartWait("plan", {})
              /\ UNCHANGED <<fidx, runStatus, fileStatus, RelevantStates>>
  /\ UNCHANGED <<fruns, fqueue, fdestroys, freports>>
  /\ UNCHANGED exceptTF

\* plan returns: a plan-only run ends here, an apply run goes on to apply
PlanReturns ==
  /\ fpc = "plan" /\ waitAt = "returned"
  /\ \E ok \in BOOLEAN :
       IF cancelled \/ ~ok
         THEN RunEnds("error") /\ EndWait /\ RunReturns("empty", FALSE)
       ELSE IF fruns[fidx].command = "plan"
         THEN RunEnds("pass") /\ EndWait /\ RunReturns("empty", FALSE)
         ELSE /\ fpc' = "apply"
              /\ \E cr \in SUBSET CreatedObjects : StartWait("apply", cr)
              /\ UNCHANGED <<fidx, runStatus, fileStatus, RelevantStates>>
  /\ UNCHANGED <<fruns, fqueue, fdestroys, freports>>
  /\ UNCHANGED exceptTF

\* apply returns: the returned state and the run are recorded, also when the
\* apply failed or was interrupted
ApplyReturns ==
  /\ fpc = "apply" /\ waitAt = "returned"
  /\ \E ok \in BOOLEAN, st \in {"empty", "full"} :
       /\ RunReturns(st, TRUE)
       /\ RunEnds(IF cancelled \/ ~ok THEN "error" ELSE "pass")
  /\ EndWait
  /\ UNCHANGED <<fruns, fqueue, fdestroys, freports>>
  /\ UNCHANGED exceptTF

\* cleanup that destroys the additional states in the order of their runs
SortedStatesAscending(rs) ==
  LET ks == {k \in DOMAIN rs \ {"main"} : rs[k].Run # 0}
  IN CHOOSE q \in [1 .. Cardinality(ks) -> ks] :
       \A i, j \in 1 .. Cardinality(ks) : i < j => rs[q[i]].Run < rs[q[j]].Run

\* the additional states cleanup destroys: those with a run, later runs first
SortedStates(rs) ==
  LET ks == {k \in DOMAIN rs \ {"main"} : rs[k].Run # 0}
  IN CHOOSE q \in [1 .. Cardinality(ks) -> ks] :
       \A i, j \in 1 .. Cardinality(ks) : i < j => rs[q[i]].Run > rs[q[j]].Run

\* destroy of the state at the head of fqueue, up to its wait; a state with
\* no run is only reported, an empty state needs no operation
DestroyHead ==
  LET k == Head(fqueue) IN
  IF RelevantStates[k].Run = 0
    THEN /\ freports' = freports \cup {k} /\ fqueue' = Tail(fqueue)
         /\ fpc' = "states"
         /\ UNCHANGED <<fdestroys, fileStatus>> /\ UNCHANGED tvars
  ELSE IF RelevantStates[k].State = "empty"
    THEN /\ fdestroys' = Append(fdestroys, k)
         /\ freports' = freports \cup {k} /\ fqueue' = Tail(fqueue)
         /\ fpc' = "states"
         /\ UNCHANGED fileStatus /\ UNCHANGED tvars
    ELSE /\ fdestroys' = Append(fdestroys, k)
         /\ fpc' = "destroyPlan"
         /\ StartWait("destroy", {})
         /\ UNCHANGED <<freports, fqueue, fileStatus>>

\* Test has returned and cleanup begins: nothing when cancelled
CleanupStart ==
  /\ fpc = "cleanup" \/ (fpc = "runs" /\ fidx > Len(fruns))
  /\ IF Cancelled
       THEN fpc' = "done" /\ UNCHANGED fqueue
       ELSE /\ fqueue' = <<"main">> \o SortedStates(RelevantStates)
            /\ fpc' = "main"
  /\ UNCHANGED <<fruns, fidx, RelevantStates, runStatus, fileStatus,
                 fdestroys, freports>>
  /\ UNCHANGED tvars
  /\ UNCHANGED exceptTF

\* "First, we'll clean up the main state."
CleanupMain ==
  /\ fpc = "main"
  /\ DestroyHead
  /\ UNCHANGED <<fruns, fidx, RelevantStates, runStatus>>
  /\ UNCHANGED exceptTF

\* the additional states, each after a look at Cancelled
CleanupNext ==
  /\ fpc = "states"
  /\ IF Cancelled \/ fqueue = <<>>
       THEN /\ fpc' = "done"
            /\ UNCHANGED <<fqueue, fdestroys, freports, fileStatus>>
            /\ UNCHANGED tvars
       ELSE DestroyHead
  /\ UNCHANGED <<fruns, fidx, RelevantStates, runStatus>>
  /\ UNCHANGED exceptTF

\* DestroySummary for the state at the head of fqueue; what is left of it
\* marks the file as errored
DestroyEnds(left) ==
  /\ freports' = freports \cup {Head(fqueue)}
  /\ fqueue' = Tail(fqueue)
  /\ fileStatus' = IF left = "full" THEN "error" ELSE fileStatus
  /\ fpc' = "states"
  /\ EndWait

\* destroy: the destroy plan returns; interrupted or failed, the state stays
DestroyPlanReturns ==
  /\ fpc = "destroyPlan" /\ waitAt = "returned"
  /\ \E ok \in BOOLEAN :
       IF cancelled \/ ~ok
         THEN DestroyEnds("full")
         ELSE /\ fpc' = "destroyApply" /\ StartWait("apply", {})
              /\ UNCHANGED <<freports, fqueue, fileStatus>>
  /\ UNCHANGED <<fruns, fidx, RelevantStates, runStatus, fdestroys>>
  /\ UNCHANGED exceptTF

\* destroy: the apply of the destroy plan returns what is left
DestroyApplyReturns ==
  /\ fpc = "destroyApply" /\ waitAt = "returned"
  /\ \E left \in {"empty", "full"} : DestroyEnds(left)
  /\ UNCHANGED <<fruns, fidx, RelevantStates, runStatus, fdestroys>>
  /\ UNCHANGED exceptTF

FNext ==
  \/ RunNext \/ ValidateReturns \/ PlanReturns \/ ApplyReturns
  \/ CleanupStart \/ CleanupMain \/ CleanupNext
  \/ DestroyPlanReturns \/ DestroyApplyReturns
  \/ TNext

\* one test file, from its first run block to the end of cleanup
FileInit == XIdle /\ PIdle /\ WIdle /\ TIdle /\ FInit /\ CIdle /\ EIdle /\ RIdle /\ SIdle /\ OIdle /\ LIdle /\ DIdle /\ VIdle

SpecFile == FileInit /\ [][FNext]_vars

(***************************************************************************)
(* The action of a resource change: its wire form in the plan file         *)
(* (planproto) and its "actions" list in the JSON plan (jsonplan).         *)
(***************************************************************************)
\* plans.Forget, by the name its String method gives it
Forget == "Forget"

\* plans.Action, each by the name its String method gives it
Actions ==
  {"NoOp", "Create", "Read", "Update", "Delete", "DeleteThenCreate",
   "CreateThenDelete"} \cup {Forget}

\* what NewAction leaves behind when it panics
Panic == "panic"

\* planproto.NewAction
NewAction(action) ==
  CASE action = "NoOp" -> "NOOP"
    [] action = "Create" -> "CREATE"
    [] action = "Read" -> "READ"
    [] action = "Update" -> "UPDATE"
    [] action = "Delete" -> "DELETE"
    [] action = "DeleteThenCreate" -> "DELETE_THEN_CREATE"
    [] action = "CreateThenDelete" -> "CREATE_THEN_DELETE"
    [] OTHER -> Panic

\* planproto.FromAction: the action and whether an error is returned
FromAction(protoAction) ==
  CASE protoAction = "NOOP" -> [action |-> "NoOp", err |-> FALSE]
    [] protoAction = "CREATE" -> [action |-> "Create", err |-> FALSE]
    [] protoAction = "READ" -> [action |-> "Read", err |-> FALSE]
    [] protoAction = "UPDATE" -> [action |-> "Update", err |-> FALSE]
    [] protoAction = "DELETE" -> [action |-> "Delete", err |-> FALSE]
    [] protoAction = "DELETE_THEN_CREATE" ->
         [action |-> "DeleteThenCreate", err |-> FALSE]
    [] protoAction = "CREATE_THEN_DELETE" ->
         [action |-> "CreateThenDelete", err |-> FALSE]
    [] OTHER -> [action |-> "NoOp", err |-> TRUE]

\* jsonplan.actionString
actionString(action) ==
  CASE action = "NoOp" -> <<"no-op">>
    [] action = "Create" -> <<"create">>
    [] action = "Delete" -> <<"delete">>
    [] action = "Update" -> <<"update">>
    [] action = "CreateThenDelete" -> <<"create", "delete">>
    [] action = "Read" -> <<"read">>
    [] action = "DeleteThenCreate" -> <<"delete", "create">>
    [] OTHER -> <<action>>

\* the valid values of change.Actions, as its comment lists them
ValidActionsValues ==
  {<<"no-op">>, <<"create">>, <<"read">>, <<"update">>,
   <<"delete", "create">>, <<"create", "delete">>, <<"delete">>}

\* a plan of one to MaxChanges resource changes, of any actions
CInit ==
  /\ planChanges \in UNION {[1 .. n -> Actions] : n \in 1 .. MaxChanges}
  /\ protoChanges = <<>> /\ readChanges = <<>> /\ jsonChanges = <<>>
  /\ cpc = "ready"

\* the next change of the plan is written: NewAction gives its wire action,
\* or panics
WriteChange ==
  /\ cpc = "ready" /\ Len(protoChanges) < Len(planChanges)
  /\ LET action == planChanges[Len(protoChanges) + 1] IN
       IF NewAction(action) = Panic
       THEN cpc' = "panic" /\ UNCHANGED protoChanges
       ELSE /\ protoChanges' = Append(protoChanges, NewAction(action))
            /\ UNCHANGED cpc
  /\ UNCHANGED <<planChanges, readChanges, jsonChanges>>
  /\ UNCHANGED exceptC

\* the next written change is read back with FromAction
ReadChange ==
  /\ Len(readChanges) < Len(protoChanges)
  /\ readChanges' =
       Append(readChanges, FromAction(protoChanges[Len(readChanges) + 1]))
  /\ UNCHANGED <<planChanges, protoChanges, jsonChanges, cpc>>
  /\ UNCHANGED exceptC

\* jsonplan: the next change of the plan is rendered
RenderChange ==
  /\ cpc # "idle" /\ Len(jsonChanges) < Len(planChanges)
  /\ jsonChanges' =
       Append(jsonChanges, actionString(planChanges[Len(jsonChanges) + 1]))
  /\ UNCHANGED <<planChanges, protoChanges, readChanges, cpc>>
  /\ UNCHANGED exceptC

CNext == WriteChange \/ ReadChange \/ RenderChange

CodecInit == XIdle /\ PIdle /\ WIdle /\ TIdle /\ FIdle /\ CInit /\ EIdle /\ RIdle /\ SIdle /\ OIdle /\ LIdle /\ DIdle /\ VIdle

SpecCodec == CodecInit /\ [][CNext]_vars

(***************************************************************************)
(* The evaluator's GetResource for one resource instance.                  *)
(***************************************************************************)
\* the attribute values the objects and changes carry
AttrValues == {"tacos", "pizza", "abc"}

\* the instance has no object in state
NoObject == [status |-> "none", value |-> "none"]
\* states.ResourceInstanceObjectSrc: its status and its attributes
StateObjects ==
  [status : {"ObjectPlanned", "ObjectReady"}, value : AttrValues]

\* no change is pending for the instance
NoChange == [action |-> "none", after |-> "none"]
\* plans.ResourceInstanceChange: its action and its After value
InstanceChanges == [action : {"Create", "Update"}, after : AttrValues]

\* the other order: the stored object first, the change only without one
GetResourceStateFirst(is, change) ==
  IF is # NoObject THEN is.value ELSE change.after

\* evaluationStateData.GetResource for the instance: the After value of the
\* pending change, and the stored value only when no change is pending
GetResource(is, change) ==
  IF change # NoChange THEN change.after ELSE is.value

EInit ==
  /\ evState = NoObject /\ evChanges = NoChange
  /\ got = [state |-> NoObject, changes |-> NoChange, value |-> "none"]

\* states.SyncState.SetResourceInstanceCurrent
SetResourceInstanceCurrent ==
  /\ got.value # "idle"
  /\ evState' \in StateObjects
  /\ UNCHANGED <<evChanges, got>>
  /\ UNCHANGED exceptE

\* plans.ChangesSync.AppendResourceInstanceChange
AppendResourceInstanceChange ==
  /\ got.value # "idle"
  /\ evChanges' \in InstanceChanges
  /\ UNCHANGED <<evState, got>>
  /\ UNCHANGED exceptE

\* the pending change is taken out of the change set
RemoveResourceInstanceChange ==
  /\ got.value # "idle" /\ evChanges # NoChange
  /\ evChanges' = NoChange
  /\ UNCHANGED <<evState, got>>
  /\ UNCHANGED exceptE

\* a reference to the instance is evaluated
EvalGetResource ==
  /\ got.value # "idle"
  /\ evState # NoObject \/ evChanges # NoChange
  /\ got' = [state |-> evState, changes |-> evChanges,
             value |-> GetResource(evState, evChanges)]
  /\ UNCHANGED <<evState, evChanges>>
  /\ UNCHANGED exceptE

ENext ==
  \/ SetResourceInstanceCurrent \/ AppendResourceInstanceChange
  \/ RemoveResourceInstanceChange \/ EvalGetResource

EvalInit == XIdle /\ PIdle /\ WIdle /\ TIdle /\ FIdle /\ CIdle /\ EInit /\ RIdle /\ SIdle /\ OIdle /\ LIdle /\ DIdle /\ VIdle

SpecEval == EvalInit /\ [][ENext]_vars

(***************************************************************************)
(* Cloud.plan: the remote run after its plan phase.                        *)
(***************************************************************************)
\* the statuses Runs.Read may report once the plan phase is over
RunStatuses == {"planned", "planned_and_finished", "errored", "canceled"}
FailedStatuses == {"errored", "canceled"}

RunConfigs ==
  [postPlan : BOOLEAN, costEstimate : BOOLEAN, policyChecks : BOOLEAN]

\* the other behaviour: return as soon as the failed status is read
AfterRunsReadReturnOnFailure(status) ==
  IF status \in FailedStatuses THEN "returned" ELSE "postPlan"

\* where plan goes after Runs.Read gave the status: on to the post-plan
\* stage, whatever the status
AfterRunsRead(status) == "postPlan"

RInit ==
  /\ rcfg \in RunConfigs
  /\ rstatus = "pending" /\ rpc = "waitForRun" /\ rshown = {} /\ rret = "none"

\* plan returns the error of the step it is at
ReturnErr(step) ==
  /\ rpc' = "returned" /\ rret' = step
  /\ UNCHANGED <<rcfg, rstatus, rshown>>

\* b.waitForRun(stopCtx, cancelCtx, op, "plan", r, w)
WaitForRun ==
  /\ rpc = "waitForRun"
  /\ \/ ReturnErr("waitForRun")
     \/ rpc' = "logs" /\ UNCHANGED <<rcfg, rstatus, rshown, rret>>
  /\ UNCHANGED exceptR

\* b.client.Plans.Logs and the loop that prints them
PlanLogs ==
  /\ rpc = "logs"
  /\ \/ ReturnErr("logs")
     \/ rpc' = "read" /\ UNCHANGED <<rcfg, rstatus, rshown, rret>>
  /\ UNCHANGED exceptR

\* b.client.Runs.Read: the current status of the run
RunsRead ==
  /\ rpc = "read"
  /\ \/ ReturnErr("read")
     \/ \E status \in RunStatuses :
          /\ rstatus' = status
          /\ rpc' = AfterRunsRead(status)
          /\ rret' = IF AfterRunsRead(status) = "returned" THEN "nil" ELSE rret
          /\ UNCHANGED <<rcfg, rshown>>
  /\ UNCHANGED exceptR

\* one of the three phases after the plan: skipped when the run has none,
\* else its results are rendered and its error, if any, is returned
Phase(at, has, next) ==
  /\ rpc = at
  /\ IF ~has
     THEN /\ rpc' = next
          /\ rret' = IF next = "returned" THEN "nil" ELSE rret
          /\ UNCHANGED <<rcfg, rstatus, rshown>>
     ELSE /\ rshown' = rshown \cup {at}
          /\ \/ rpc' = "returned" /\ rret' = at
             \/ /\ rpc' = next
                /\ rret' = IF next = "returned" THEN "nil" ELSE rret
          /\ UNCHANGED <<rcfg, rstatus>>
  /\ UNCHANGED exceptR

\* b.waitTaskStage(..., "Post-plan Tasks")
PostPlanTasks == Phase("postPlan", rcfg.postPlan, "costEstimate")

\* b.costEstimate
CostEstimate == Phase("costEstimate", rcfg.costEstimate, "checkPolicy")

\* b.checkPolicy
CheckPolicy == Phase("checkPolicy", rcfg.policyChecks, "returned")

RNext ==
  \/ WaitForRun \/ PlanLogs \/ RunsRead
  \/ PostPlanTasks \/ CostEstimate \/ CheckPolicy

RemoteInit ==
  XIdle /\ PIdle /\ WIdle /\ TIdle /\ FIdle /\ CIdle /\ EIdle /\ RInit /\ SIdle /\ OIdle /\ LIdle /\ DIdle /\ VIdle

SpecRemote == RemoteInit /\ [][RNext]_vars

(***************************************************************************)
(* for_each of a stack object: evaluateForEachExpr and instancesMap.       *)
(***************************************************************************)
\* addrs.StringKey of the elements of a collection, numbered
StringKeys == 1 .. MaxKeys

\* cty.NilVal: the object has no for_each at all
NilVal == [kind |-> "nil", is |-> "known", sensitive |-> FALSE, keys |-> {}]

\* the values a for_each expression may give: objects, maps and sets that
\* are known (with their keys, marked sensitive or not), unknown or null,
\* and the unknown value of unknown type
ForEachValues ==
  [kind : {"object", "map", "set"}, is : {"known"}, sensitive : BOOLEAN,
   keys : SUBSET StringKeys]
    \cup [kind : {"object", "map", "set", "dynamic"}, is : {"unknown"},
          sensitive : {FALSE}, keys : {{}}]
    \cup [kind : {"object", "map", "set"}, is : {"null"},
          sensitive : {FALSE}, keys : {{}}]

\* evaluateForEachExpr: the error summaries for the value
evaluateForEachExpr(v) ==
  IF v.sensitive \/ v.is = "null"
  THEN {"Invalid for_each value"}
  ELSE {}

\* a map that treats "no elements" like "not known"
instancesMapEmptyAsUnknown(v, supported) ==
  IF v = NilVal THEN [nil |-> FALSE, keys |-> {NoKey}]
  ELSE IF v.is = "unknown" \/ v.keys = {}
  THEN IF supported
       THEN [nil |-> FALSE, keys |-> {WildcardKey}]
       ELSE [nil |-> TRUE, keys |-> {}]
  ELSE [nil |-> FALSE, keys |-> v.keys]

\* instancesMap: the instance keys for an already-validated for_each value;
\* a nil map means "unknown"
instancesMap(v, supported) ==
  IF v = NilVal THEN [nil |-> FALSE, keys |-> {NoKey}]
  ELSE IF v.is = "unknown"
  THEN IF supported
       THEN [nil |-> FALSE, keys |-> {WildcardKey}]
       ELSE [nil |-> TRUE, keys |-> {}]
  ELSE [nil |-> FALSE, keys |-> v.keys]

SInit ==
  /\ forEachVal \in ForEachValues \cup {NilVal}
  /\ unknownForEachSupported \in BOOLEAN
  /\ epc = "expr" /\ forEachDiags = {} /\ insts = [nil |-> TRUE, keys |-> {}]

\* the for_each expression is evaluated and validated (not at all for an
\* object that has none)
EvaluateForEachExpr ==
  /\ epc = "expr"
  /\ forEachDiags' =
       IF forEachVal = NilVal THEN {} ELSE evaluateForEachExpr(forEachVal)
  /\ epc' = IF forEachDiags' = {} THEN "map" ELSE "done"
  /\ UNCHANGED <<forEachVal, unknownForEachSupported, insts>>
  /\ UNCHANGED exceptS

\* the instances are made of the validated value
InstancesMap ==
  /\ epc = "map"
  /\ insts' = instancesMap(forEachVal, unknownForEachSupported)
  /\ epc' = "done"
  /\ UNCHANGED <<forEachVal, unknownForEachSupported, forEachDiags>>
  /\ UNCHANGED exceptS

SNext == EvaluateForEachExpr \/ InstancesMap

ForEachInit ==
  XIdle /\ PIdle /\ WIdle /\ TIdle /\ FIdle /\ CIdle /\ EIdle /\ RIdle /\ SInit /\ OIdle /\ LIdle /\ DIdle /\ VIdle

SpecForEach == ForEachInit /\ [][SNext]_vars


(***************************************************************************)
(* The cloud backend's Operation.  The caller takes the operation lock and *)
(* starts a goroutine that runs the operation function, reads the run,     *)
(* asks to cancel it after an interrupt and settles the result; the        *)
(* goroutine's deferred Unlock runs on every return.                       *)
(***************************************************************************)
FReturns ==
  {[r |-> r, err |-> e] : r \in BOOLEAN, e \in {"nil", "error", "Canceled"}}

OpRunStatuses == {"planning", "planned_and_finished", "canceled", "errored"}

Answers == {"yes", "y", "no", ""}

(* The lock once the goroutine of operation o has returned by way of exit. *)
DeferredUnlockExceptCanceled(o, exit) ==
  IF exit = "canceled" THEN o ELSE Unlocked

DeferredUnlock(o, exit) == Unlocked

(* The prompt's answers that cancel the run. *)
AcceptsAnyYes(v) == v \in {"yes", "y"}

Accepts(v) == v = "yes"

(* The result once the run has been read: its status decides. *)
ResultOf(status, before) ==
  IF status \in {"canceled", "errored"} THEN "OperationFailure" ELSE before

OInit ==
  /\ OIdle

(* Operation up to b.opLock.Lock(): the operation type has a function. *)
OperationCall ==
  \E o \in Ops, auto \in BOOLEAN :
    /\ opc[o] = "idle"
    /\ opc' = [opc EXCEPT ![o] = "lock"]
    /\ oauto' = [oauto EXCEPT ![o] = auto]
    /\ UNCHANGED <<opLock, ofret, orun, oanswer, oremote, oresult,
                   oreported>>
    /\ UNCHANGED exceptO

(* Operation with an operation type that has no function: an error is *)
(* returned before the lock is taken.                                 *)
OperationUnsupported ==
  \E o \in Ops :
    /\ opc[o] = "idle"
    /\ opc' = [opc EXCEPT ![o] = "rejected"]
    /\ UNCHANGED <<opLock, oauto, ofret, orun, oanswer, oremote, oresult,
                   oreported>>
    /\ UNCHANGED exceptO

(* b.opLock.Lock() returns; the goroutine is started and Operation returns. *)
OperationLock ==
  \E o \in Ops :
    /\ opc[o] = "lock"
    /\ opLock = Unlocked
    /\ opLock' = o
    /\ opc' = [opc EXCEPT ![o] = "f"]
    /\ UNCHANGED <<oauto, ofret, orun, oanswer, oremote, oresult,
                   oreported>>
    /\ UNCHANGED exceptO

(* The goroutine returns: its deferred calls run. *)
GoroutineReturns(o, exit, result, reported) ==
  /\ opc' = [opc EXCEPT ![o] = "done"]
  /\ opLock' = DeferredUnlock(o, exit)
  /\ oresult' = [oresult EXCEPT ![o] = result]
  /\ oreported' = [oreported EXCEPT ![o] = reported]

(* The operation function returns. *)
FunctionReturns ==
  \E o \in Ops, fr \in FReturns :
    /\ opc[o] = "f"
    /\ ofret' = [ofret EXCEPT ![o] = fr]
    /\ IF fr.err = "error"
       THEN GoroutineReturns(o, "error", oresult[o], TRUE)
       ELSE IF ~fr.r /\ fr.err = "Canceled"
       THEN GoroutineReturns(o, "canceled", "OperationFailure", FALSE)
       ELSE IF ~fr.r
       THEN GoroutineReturns(o, "norun", oresult[o], FALSE)
       ELSE /\ opc' = [opc EXCEPT ![o] = "read"]
            /\ UNCHANGED <<opLock, oresult, oreported>>
    /\ UNCHANGED <<oauto, orun, oanswer, oremote>>
    /\ UNCHANGED exceptO

(* b.client.Runs.Read fails. *)
OpRunsReadFails ==
  \E o \in Ops :
    /\ opc[o] = "read"
    /\ GoroutineReturns(o, "readError", oresult[o], TRUE)
    /\ UNCHANGED <<oauto, ofret, orun, oanswer, oremote>>
    /\ UNCHANGED exceptO

(* b.client.Runs.Read returns the run; without an interrupt the *)
(* goroutine settles the result and returns.                    *)
OpRunsRead ==
  \E o \in Ops, status \in OpRunStatuses, cancelable \in BOOLEAN :
    /\ opc[o] = "read"
    /\ orun' = [orun EXCEPT ![o] =
                  [status |-> status, cancelable |-> cancelable]]
    /\ IF ofret[o].err = "Canceled"
       THEN /\ opc' = [opc EXCEPT ![o] = "cancel"]
            /\ UNCHANGED <<opLock, oresult, oreported>>
       ELSE GoroutineReturns(o, "read", ResultOf(status, oresult[o]), FALSE)
    /\ UNCHANGED <<oauto, ofret, oanswer, oremote>>
    /\ UNCHANGED exceptO

(* b.cancel on a run that is not cancelable: nothing is asked or sent. *)
CancelNotCancelable ==
  \E o \in Ops :
    /\ opc[o] = "cancel"
    /\ ~orun[o].cancelable
    /\ GoroutineReturns(o, "canceled",
                        ResultOf(orun[o].status, oresult[o]), FALSE)
    /\ UNCHANGED <<oauto, ofret, orun, oanswer, oremote>>
    /\ UNCHANGED exceptO

(* b.cancel on a cancelable run without auto-approve: asking fails. *)
CancelInputFails ==
  \E o \in Ops :
    /\ opc[o] = "cancel"
    /\ orun[o].cancelable
    /\ ~oauto[o]
    /\ oanswer' = [oanswer EXCEPT ![o] = "error"]
    /\ GoroutineReturns(o, "cancelError", oresult[o], TRUE)
    /\ UNCHANGED <<oauto, ofret, orun, oremote>>
    /\ UNCHANGED exceptO

(* b.cancel on a cancelable run: the user is asked unless the operation *)
(* is auto-approved, and the run is cancelled after "yes".              *)
CancelCancelable ==
  \E o \in Ops, v \in Answers, sent \in BOOLEAN :
    /\ opc[o] = "cancel"
    /\ orun[o].cancelable
    /\ oanswer' = [oanswer EXCEPT ![o] = IF oauto[o] THEN "none" ELSE v]
    /\ IF ~oauto[o] /\ ~Accepts(v)
       THEN /\ oremote' = oremote
            /\ GoroutineReturns(o, "canceled",
                                ResultOf(orun[o].status, oresult[o]), FALSE)
       ELSE IF ~sent
       THEN /\ oremote' = [oremote EXCEPT ![o] = "cancelFailed"]
            /\ GoroutineReturns(o, "cancelError", oresult[o], TRUE)
       ELSE /\ oremote' = [oremote EXCEPT ![o] = "cancelled"]
            /\ GoroutineReturns(o, "canceled",
                                ResultOf(orun[o].status, oresult[o]), FALSE)
    /\ UNCHANGED <<oauto, ofret, orun>>
    /\ UNCHANGED exceptO

ONext ==
  \/ OperationCall
  \/ OperationUnsupported
  \/ OperationLock
  \/ FunctionReturns
  \/ OpRunsReadFails
  \/ OpRunsRead
  \/ CancelNotCancelable
  \/ CancelInputFails
  \/ CancelCancelable

OperationInit ==
  XIdle /\ PIdle /\ WIdle /\ TIdle /\ FIdle /\ CIdle /\ EIdle /\ RIdle /\ SIdle /\ OInit /\ LIdle /\ DIdle /\ VIdle

SpecOperation == OperationInit /\ [][ONext]_vars


(***************************************************************************)
(* Loading a stack state from its raw map (LoadFromProto) and from direct  *)
(* messages (LoadFromDirectProto).  A map is walked in an order the        *)
(* runtime chooses, so an entry point has a set of possible outcomes.      *)
(***************************************************************************)
RawKeys == {"bad", "CI", "RIO", "Xfail", "Xpreserve", "Xdiscard"}

(* Direct messages: none, a component instance, a resource instance *)
(* object, and one whose stored object cannot be decoded.           *)
NilMsg == "nil"
Messages == {NilMsg, "StateComponentInstanceV1",
             "StateResourceInstanceObjectV1", "undecodable"}

(* anypb.Any: a message packed with its type, or bytes that do not unpack. *)
NilAny == [packed |-> FALSE, value |-> NilMsg]
AnyOf(msg) == IF msg = NilMsg THEN NilAny ELSE [packed |-> TRUE, value |-> msg]
GarbageAny == [packed |-> FALSE, value |-> "garbage"]
RawMessages == {AnyOf(msg) : msg \in Messages} \cup {GarbageAny}

UnmarshalNew(rawMsg) ==
  [msg |-> IF rawMsg.packed THEN rawMsg.value ELSE NilMsg,
   err |-> ~rawMsg.packed]

(* statekeys.Parse fails for a key that is not a tracking key. *)
ParseFails(rawKey) == rawKey = "bad"

RecognizedType(key) == key \in {"CI", "RIO"}

Step(kind, err, st) == [kind |-> kind, err |-> err, st |-> st]

handleUnrecognizedKey(key, st) ==
  CASE key = "Xfail" ->
         Step("error", <<"state was created by a newer version", key>>, st)
    [] key = "Xpreserve" -> Step("ok", NoErr, st)
    [] key = "Xdiscard" ->
         Step("ok", NoErr, [st EXCEPT !.discard = @ \cup {key}])
    [] OTHER -> Step("panic", NoErr, st)

handleProtoMsg(key, msg, st) ==
  CASE key = "CI" ->
         IF msg # "StateComponentInstanceV1"
         THEN Step("error", <<"unsupported message type", key>>, st)
         ELSE Step("ok", NoErr, [st EXCEPT !.components = @ \cup {key}])
    [] key = "RIO" ->
         IF msg \notin {"StateResourceInstanceObjectV1", "undecodable"}
         THEN Step("error", <<"unsupported message type", key>>, st)
         ELSE IF msg = "undecodable"
         THEN Step("error", <<"invalid stored state object", key>>, st)
         ELSE Step("ok", NoErr, [st EXCEPT !.objects = @ \cup {key}])
    [] OTHER -> Step("panic", NoErr, st)

(* The body of the loop of LoadFromProto for one entry. *)
ProtoEntry(rawKey, rawMsg, st) ==
  IF ParseFails(rawKey)
  THEN Step("error", <<"invalid tracking key in state", rawKey>>, st)
  ELSE IF ~RecognizedType(rawKey) THEN handleUnrecognizedKey(rawKey, st)
  ELSE IF rawMsg = NilAny THEN Step("panic", NoErr, st)
  ELSE IF UnmarshalNew(rawMsg).err
  THEN Step("error", <<"invalid raw value for raw state key", rawKey>>, st)
  ELSE handleProtoMsg(rawKey, UnmarshalNew(rawMsg).msg, st)

(* The body of the loop of LoadFromDirectProto for one entry. *)
DirectEntryAllRecognized(keyStr, msg, st) ==
  IF ParseFails(keyStr)
  THEN Step("error", <<"invalid tracking key", keyStr>>, st)
  ELSE handleProtoMsg(keyStr, msg, st)

DirectEntry(keyStr, msg, st) ==
  IF ParseFails(keyStr)
  THEN Step("error", <<"invalid tracking key", keyStr>>, st)
  ELSE IF ~RecognizedType(keyStr) THEN handleUnrecognizedKey(keyStr, st)
  ELSE handleProtoMsg(keyStr, msg, st)

Orders(keys) ==
  {q \in [1 .. Cardinality(keys) -> keys] :
     \A i, j \in 1 .. Cardinality(keys) : q[i] = q[j] => i = j}

(* "for rawKey, rawMsg := range msgs" in the order q, from entry i on. *)
RECURSIVE ProtoLoop(_, _, _, _)
ProtoLoop(msgs, q, i, st) ==
  IF i > Len(q) THEN Step("ok", NoErr, st)
  ELSE LET r == ProtoEntry(q[i], msgs[q[i]], st)
       IN IF r.kind # "ok" THEN Step(r.kind, r.err, EmptyStackState)
          ELSE ProtoLoop(msgs, q, i + 1, r.st)

RECURSIVE DirectLoop(_, _, _, _)
DirectLoop(msgs, q, i, st) ==
  IF i > Len(q) THEN Step("ok", NoErr, st)
  ELSE LET r == DirectEntry(q[i], msgs[q[i]], st)
       IN IF r.kind # "ok" THEN Step(r.kind, r.err, EmptyStackState)
          ELSE DirectLoop(msgs, q, i + 1, r.st)

Outcome(r, inputRaw) ==
  [kind |-> r.kind, err |-> r.err, st |-> r.st, inputRaw |-> inputRaw]

(* The outcomes of LoadFromProto for the raw map msgs. *)
LoadFromProto(msgs) ==
  {Outcome(ProtoLoop(msgs, q, 1, EmptyStackState),
           ProtoLoop(msgs, q, 1, EmptyStackState).kind = "ok") :
     q \in Orders(DOMAIN msgs)}

(* The outcomes of LoadFromDirectProto for the direct messages msgs. *)
LoadFromDirectProto(msgs) ==
  {Outcome(DirectLoop(msgs, q, 1, EmptyStackState), FALSE) :
     q \in Orders(DOMAIN msgs)}

(* The direct messages equivalent to a raw map without garbage. *)
Packed(msgs) == \A k \in DOMAIN msgs : msgs[k] # GarbageAny
DirectOf(msgs) == [k \in DOMAIN msgs |-> UnmarshalNew(msgs[k]).msg]

RawMaps ==
  UNION {[ks -> RawMessages] :
           ks \in {x \in SUBSET RawKeys : Cardinality(x) <= MaxEntries}}

LInit ==
  /\ lraw \in RawMaps
  /\ lproto = NoOutcome
  /\ ldirect = NoOutcome

CallLoadFromProto ==
  /\ lproto = NoOutcome
  /\ lproto' \in LoadFromProto(lraw)
  /\ UNCHANGED <<lraw, ldirect>>
  /\ UNCHANGED exceptL

CallLoadFromDirectProto ==
  /\ ldirect = NoOutcome
  /\ Packed(lraw)
  /\ ldirect' \in LoadFromDirectProto(DirectOf(lraw))
  /\ UNCHANGED <<lraw, lproto>>
  /\ UNCHANGED exceptL

LNext ==
  \/ CallLoadFromProto
  \/ CallLoadFromDirectProto

LoadInit ==
  XIdle /\ PIdle /\ WIdle /\ TIdle /\ FIdle /\ CIdle /\ EIdle /\ RIdle /\ SIdle /\ OIdle /\ LInit /\ DIdle /\ VIdle

SpecLoad == LoadInit /\ [][LNext]_vars


(***************************************************************************)
(* finalDiagnosticsFromEval: the diagnostics of an evaluation as they are  *)
(* returned to the caller.                                                 *)
(***************************************************************************)
Diagnostics == {"selfDependencyA", "selfDependencyB", "error", "warning"}

diagIsPromiseSelfReference(diag) ==
  diag \in {"selfDependencyA", "selfDependencyB"}

DiagsHaveErrors(ds) == \E i \in 1 .. Len(ds) : ds[i] # "warning"

(* copy(diags[i:], diags[i+1:]); diags = diags[:len(diags)-1] *)
ShiftOver(ds, i) ==
  [n \in 1 .. Len(ds) - 1 |-> IF n < i THEN ds[n] ELSE ds[n + 1]]

(* The scan that goes on to the next index after a shift. *)
RECURSIVE ScanAndShiftNoRevisit(_, _, _)
ScanAndShiftNoRevisit(ds, i, fixedSelfDepErrors) ==
  IF i > Len(ds) THEN ds
  ELSE IF ~diagIsPromiseSelfReference(ds[i])
  THEN ScanAndShiftNoRevisit(ds, i + 1, fixedSelfDepErrors)
  ELSE IF fixedSelfDepErrors + 1 = 1
  THEN ScanAndShiftNoRevisit(ds, i + 1, fixedSelfDepErrors + 1)
  ELSE ScanAndShiftNoRevisit(ShiftOver(ds, i), i + 1, fixedSelfDepErrors + 1)

(* The scan-and-shift loop from index i on; after a shift the same index *)
(* is visited again.                                                     *)
RECURSIVE ScanAndShift(_, _, _)
ScanAndShift(ds, i, fixedSelfDepErrors) ==
  IF i > Len(ds) THEN ds
  ELSE IF ~diagIsPromiseSelfReference(ds[i])
  THEN ScanAndShift(ds, i + 1, fixedSelfDepErrors)
  ELSE IF fixedSelfDepErrors + 1 = 1
  THEN ScanAndShift(ds, i + 1, fixedSelfDepErrors + 1)
  ELSE ScanAndShift(ShiftOver(ds, i), i, fixedSelfDepErrors + 1)

finalDiagnosticsFromEval(ds) ==
  LET foundSelfDepErrs ==
        Cardinality({i \in 1 .. Len(ds) : diagIsPromiseSelfReference(ds[i])})
  IN IF Len(ds) = 0 THEN ds
     ELSE IF ~DiagsHaveErrors(ds) THEN ds
     ELSE IF foundSelfDepErrs <= 1 THEN ds
     ELSE ScanAndShift(ds, 1, 0)

DInit ==
  /\ evalDiags \in UNION {[1 .. n -> Diagnostics] : n \in 0 .. MaxDiags}
  /\ finalDiags = <<>>
  /\ dpc = "eval"

FinalDiagnosticsFromEval ==
  /\ dpc = "eval"
  /\ finalDiags' = finalDiagnosticsFromEval(evalDiags)
  /\ dpc' = "returned"
  /\ UNCHANGED evalDiags
  /\ UNCHANGED exceptD

DNext == FinalDiagnosticsFromEval

DiagsInit ==
  XIdle /\ PIdle /\ WIdle /\ TIdle /\ FIdle /\ CIdle /\ EIdle /\ RIdle /\ SIdle /\ OIdle /\ LIdle /\ DInit /\ VIdle

SpecDiags == DiagsInit /\ [][DNext]_vars


(***************************************************************************)
(* The variables of a remote run: plan parses the operation's variables    *)
(* and builds the list it sends with the request that creates the run.     *)
(***************************************************************************)
VarNames == 1 .. MaxVars
VarValues == {"v1", "v2"}

(* The element a slice made with a length holds before it is assigned. *)
NilRunVariable == [Key |-> 0, Value |-> "nil"]

RunVariable(name, value) == [Key |-> name, Value |-> value]

(* make([]*tfe.RunVariable, n) *)
MakeRunVariables(n) == [i \in 1 .. n |-> NilRunVariable]

(* runVariables after the loop over variables in the order q *)
RunVariables(vs, q) ==
  MakeRunVariables(Cardinality(DOMAIN vs))
    \o [i \in 1 .. Len(q) |-> RunVariable(q[i], vs[q[i]])]

VInit ==
  /\ variables \in UNION {[ns -> VarValues] : ns \in SUBSET VarNames}
  /\ runVariables = <<>>
  /\ vpc = "parse"

(* ParseCloudRunVariables returns errors: plan returns them. *)
ParseCloudRunVariablesFails ==
  /\ vpc = "parse"
  /\ vpc' = "returned"
  /\ UNCHANGED <<variables, runVariables>>
  /\ UNCHANGED exceptV

(* plan from the parsed variables to b.client.Runs.Create *)
CreateRunVariables ==
  /\ vpc = "parse"
  /\ \E q \in Orders(DOMAIN variables) :
       runVariables' = RunVariables(variables, q)
  /\ vpc' = "created"
  /\ UNCHANGED variables
  /\ UNCHANGED exceptV

VNext ==
  \/ ParseCloudRunVariablesFails
  \/ CreateRunVariables

RunVariablesInit ==
  XIdle /\ PIdle /\ WIdle /\ TIdle /\ FIdle /\ CIdle /\ EIdle /\ RIdle /\ SIdle /\ OIdle /\ LIdle /\ DIdle /\ VInit

SpecRunVariables == RunVariablesInit /\ [][VNext]_vars

(***************************************************************************)
(* Properties of dynamic expansion.                                        *)
(***************************************************************************)
\* the prior state has been scanned by the partially-known branch
Classified ==
  /\ cfg.variant \in {"experiment", "partial"}
  /\ pc \in {"build", "done", "walked"}
  /\ EvalError \notin diags

ClassesOf(i) ==
  (IF i \in knownAddrs THEN {"known-desired"} ELSE {})
    \cup (IF i \in orphanAddrs THEN {"orphan"} ELSE {})
    \cup (IF i \in maybeOrphanAddrs THEN {"maybe-orphan"} ELSE {})

UnderUnresolvedPrefix(i) == \E p \in partialExpandedAddrs : MatchesInstance(p, i)

\* C5: the state lock is held only while the state is inspected: it is
\* released before the expansion returns on every path, it is never locked
\* again while held, and no provider call is made while it is held.
C5_LockDiscipline ==
  /\ ~relocked
  /\ (held # {} => pc \in {"inspect", "subgraph", "classify"})
  /\ (pc \in {"done", "walked"} => held = {})
  /\ \A c \in calls : ~c.locked

C5_Witness ==
  /\ pc = "walked" /\ cfg.variant = "known"
  /\ Cardinality(cfg.ans.knownInsts) = 2
  /\ \E c \in calls : c.op = "PlanResourceChange"

\* C6: once the partially-known branch has scanned the prior state, every
\* prior instance is in exactly one class: known-desired (in the known
\* expansion), maybe-orphan (under an unresolved prefix) or orphan (neither).
C6_ExactlyOneClass ==
  Classified =>
    \A i \in cfg.stateInsts :
      /\ Cardinality(ClassesOf(i)) = 1
      /\ (i \in maybeOrphanAddrs <=> UnderUnresolvedPrefix(i))
      /\ (i \in orphanAddrs <=> (~UnderUnresolvedPrefix(i) /\ i \notin knownAddrs))

C6_Witness ==
  /\ Classified
  /\ \E i, j, k \in cfg.stateInsts :
       /\ ClassesOf(i) = {"known-desired"}
       /\ ClassesOf(j) = {"orphan"}
       /\ ClassesOf(k) = {"maybe-orphan"}

HasCall(addr, op) == \E c \in calls : c.addr = addr /\ c.op = op
HasChange(addr) == \E ch \in changes : ch.addr = addr

\* C7 as stated: after the walk of the subgraph every maybe-orphan has been
\* refreshed and has no planned change.
C7_RefreshedNeverPlanned ==
  (Classified /\ pc = "walked") =>
    \A a \in maybeOrphanAddrs :
      /\ HasCall(a, "ReadResource")
      /\ ~HasChange(a)
      /\ ~HasCall(a, "PlanResourceChange")

\* C7 amended: after the walk of the subgraph no maybe-orphan has a planned
\* change or a provider plan call, tainted or named in -replace or not, and it
\* has been refreshed exactly when the plan does not skip refreshing.
C7_NeverPlanned ==
  (Classified /\ pc = "walked") =>
    \A a \in maybeOrphanAddrs :
      /\ ~HasChange(a)
      /\ ~HasCall(a, "PlanResourceChange")
      /\ (HasCall(a, "ReadResource") <=> ~cfg.flags.skipRefresh)

C7_Witness ==
  /\ Classified /\ pc = "walked"
  /\ cfg.flags.tainted /\ ~cfg.flags.skipPlanChanges
  /\ \E a \in maybeOrphanAddrs : a \in cfg.forceReplace /\ HasCall(a, "ReadResource")

\* C8 as stated: in the partially-known branches, an unresolved prefix together
\* with -target or -replace addresses makes the expansion return an error and
\* no graph.
C8_RejectsTargetsAndReplace ==
  (/\ cfg.variant \in {"experiment", "partial"}
   /\ pc \in {"done", "walked"}
   /\ partialExpandedAddrs # {}
   /\ (cfg.targets # {} \/ cfg.forceReplace # {}))
    => (ret = "nil" /\ HasErrors(diags))

\* C8 amended: dynamicExpandWithUnknownInstancesExperiment returns an error and
\* no graph when an unresolved prefix meets -target or -replace addresses.
C8_ExperimentRejects ==
  (/\ cfg.variant = "experiment"
   /\ pc \in {"done", "walked"}
   /\ partialExpandedAddrs # {}
   /\ (cfg.targets # {} \/ cfg.forceReplace # {}))
    => (ret = "nil" /\ HasErrors(diags) /\ g = {})

C8_Witness ==
  /\ cfg.variant = "experiment" /\ pc = "done"
  /\ partialExpandedAddrs # {} /\ cfg.forceReplace # {} /\ cfg.targets = {}
  /\ maybeOrphanAddrs # {}
  /\ ret = "nil"

\* C10: with no unresolved prefix the experiment's branch returns the graph
\* the fully-known branch returns for the same node, expander answers and
\* prior state: the same vertices with the same settings.
C10_SameAsFullyKnown ==
  (/\ cfg.variant = "experiment"
   /\ pc = "done" /\ ret = "graph"
   /\ partialExpandedAddrs = {})
    => g = KnownGraph(cfg)

\* how many vertices dynamicExpand adds for one address: the g.Add of the
\* orphan loop, and the vertices of every subsumed subgraph
RECURSIVE SubgraphAdds(_, _, _)
SubgraphAdds(c, mods, i) ==
  IF mods = {} THEN 0
  ELSE LET m == CHOOSE x \in mods : TRUE
       IN Cardinality({v \in resourceInstanceSubgraph(c, m, ExpandResource(c, m)) :
                         v.kind # "root" /\ v.addr = i})
            + SubgraphAdds(c, mods \ {m}, i)

KnownAdds(c, i) ==
  (IF i \in ModuleOrphans(c) THEN 1 ELSE 0) + SubgraphAdds(c, c.ans.knownInsts, i)

\* C14: in the graph the fully-known branch returns, every prior instance whose
\* module instance is no longer in the expanded configuration has exactly one
\* vertex, and it is an orphan vertex.
C14_OneOrphanNode ==
  (cfg.variant = "known" /\ ret = "graph") =>
    \A i \in {x \in cfg.stateInsts : x[1] \notin cfg.ans.knownInsts} :
      /\ KnownAdds(cfg, i) = 1
      /\ \E v \in g : v.addr = i /\ v.kind = "orphan"
      /\ \A v \in g : (v.addr = i /\ v.kind # "root") => v = concreteResourceOrphan(cfg, i)

C14_Witness ==
  /\ cfg.variant = "known" /\ ret = "graph"
  /\ cfg.ans.knownInsts = {1}
  /\ Cardinality({x \in cfg.stateInsts : x[1] = 2}) = MaxCount
  /\ \E x \in cfg.stateInsts : x[1] = 1
  /\ cfg.targets # {}

Roots(graph) == {v \in graph : v.kind = "root"}

Warnings == {d \in diags : d.severity = "warning"}

\* the key shape of a -replace address does not match the expansion of the
\* resource in the module instance the address names
ShapeMismatch(f) ==
  /\ f[1] \in ResolvedModules(cfg)
  /\ \/ f[2] = NoKey /\ cfg.ans.resExp[f[1]].mode = "count"
     \/ f[2] # NoKey /\ cfg.ans.resExp[f[1]].mode = "single"

WarnedAbout(f) == \E d \in Warnings : d.about[1] = f

ReplaceActions == {"DeleteThenCreate", "CreateThenDelete"}

\* a keyless -replace address whose resource expanded to two or more instances
KeylessForMany(f) ==
  /\ f[2] = NoKey
  /\ f[1] \in ResolvedModules(cfg)
  /\ cfg.ans.resExp[f[1]].mode = "count"
  /\ cfg.ans.resExp[f[1]].n >= 2

\* the warning for f lists exactly the instances of the resource, and no
\* instance of the resource is planned for replacement
WarnedAndNotReplaced(f) ==
  /\ Diag("warning", "Incompletely-matched force-replace resource instance",
          <<f, ExpandResource(cfg, f[1])>>) \in diags
  /\ \A ch \in changes : ch.addr[1] = f[1] => ch.action \notin ReplaceActions

\* C17: when a keyless -replace address names a resource that expanded to
\* k >= 2 instances, the plan warns with exactly those k addresses as the
\* alternatives and replaces no instance of the resource.
C17_KeylessReplaceWarns ==
  (pc = "walked" /\ cfg.variant \in {"known", "experiment"}) =>
    \A f \in cfg.forceReplace : KeylessForMany(f) => WarnedAndNotReplaced(f)

\* create_before_destroy is set in the configuration or forced on
CBDInEffect == cfg.flags.configCBD \/ cfg.flags.forceCBD = "true"

OrphanVertices == {v \in g : v.kind = "orphan"}

\* C19: an orphan (in state, not in configuration) plans only a delete, or a
\* forget when a removed block with destroy = false names it; never a
\* create, an update or a replace.
C19_OrphanDeletesOrForgets ==
  pc = "walked" =>
    \A v \in OrphanVertices : \A ch \in changes :
      ch.addr = v.addr =>
        /\ ch.action \in {"Delete", "Forget"}
        /\ ch.action = "Forget" => cfg.flags.forget

\* tainted orphans of a removed resource are forgotten, not replaced
C19_Witness ==
  /\ pc = "walked" /\ cfg.flags.tainted
  /\ OrphanVertices # {}
  /\ \E ch \in changes : ch.action = "Forget"

\* C28: whenever DynamicExpand returns diagnostics that contain an error
\* (self-reference, import expansion, instance expansion or import-target
\* validation), the graph it returns is nil.
C28_ErrorMeansNilGraph ==
  (pc = "done" /\ HasErrors(diags)) => ret = "nil"

\* C29: the graph built by partially-known expansion holds at most one node
\* per resource instance address: the known, orphan and maybe-orphan
\* addresses the nodes are made of are pairwise disjoint, so no address has
\* both a known-desired node and a maybe-orphan or orphan node.
C29_OneNodePerInstance ==
  (cfg.variant \in {"experiment", "partial"} /\ pc \in {"done", "walked"}
     /\ ret = "graph") =>
    /\ knownAddrs \cap (orphanAddrs \cup maybeOrphanAddrs) = {}
    /\ orphanAddrs \cap maybeOrphanAddrs = {}
    /\ \A v, w \in g \ {rootNode} : v.addr = w.addr => v = w

\* a returned graph with a known, an orphan and a maybe-orphan node, where
\* the known instance is also in the prior state
C29_Witness ==
  /\ cfg.variant = "experiment" /\ pc = "done" /\ ret = "graph"
  /\ knownAddrs \cap cfg.stateInsts # {}
  /\ orphanAddrs # {} /\ maybeOrphanAddrs # {}
  /\ \A a \in knownAddrs \cup orphanAddrs \cup maybeOrphanAddrs :
       Cardinality({v \in g : v.addr = a}) = 1

(***************************************************************************)
(* Properties of plan rounds.                                              *)
(***************************************************************************)
HasPCall(addr, op) == \E c \in pcalls : c.addr = addr /\ c.op = op
ChangesOf(r) == {ch \in pchanges : ch.addr[1] = r}
DeferredOf(r) == {d \in pdeferred : d.addr[1] = r}

\* C1: a plan whose DeferredResources holds at least one entry, whatever its
\* reason or action, has Complete = false.
C1_DeferredImpliesIncomplete ==
  (ppc = "planned" /\ pdeferred # {}) => ~pcomplete

C1_Witness ==
  /\ ppc = "planned"
  /\ popts.targets = {}
  /\ [addr |-> <<"a", NoKey>>, reason |-> "ProviderConfigUnknown",
      action |-> "NoOp"] \in pdeferred
  /\ ~pcomplete

\* C2 as stated: with deferrals allowed and an unknown count, the plan has no
\* Changes.Resources entry for the resource, exactly one DeferredResources
\* entry for it, with the wildcard key and reason instance-count-unknown, and
\* Complete is false.
C2_OneWildcardEntry ==
  (ppc = "planned" /\ popts.allowed /\ pcount = ExpUnknown) =>
    /\ ChangesOf("b") = {}
    /\ DeferredOf("b") = {[addr |-> <<"b", WildcardKey>>,
                           reason |-> "InstanceCountUnknown", action |-> "Create"]}
    /\ ~pcomplete

\* C2 amended: the same, for a resource that targeting does not exclude from
\* the plan.
C2_TargetedOneWildcardEntry ==
  (ppc = "planned" /\ popts.allowed /\ pcount = ExpUnknown /\ Targeted("b")) =>
    /\ ChangesOf("b") = {}
    /\ DeferredOf("b") = {[addr |-> <<"b", WildcardKey>>,
                           reason |-> "InstanceCountUnknown", action |-> "Create"]}
    /\ ~pcomplete

C2_Witness ==
  /\ ppc = "planned" /\ popts.allowed /\ pcount = ExpUnknown /\ Targeted("b")
  /\ <<"b", 0>> \in pstate
  /\ HasPCall(<<"b", 0>>, "ReadResource")
  /\ DeferredOf("b") # {}

\* C3 as stated: a vertex deferred only because of a deferred dependency is
\* recorded as deferred and no PlanResourceChange call is made for it.
C3_PrereqNoPlanCall ==
  (ppc = "planned") =>
    \A d \in pdeferred :
      d.reason = "DeferredPrereq" => ~HasPCall(d.addr, "PlanResourceChange")

\* C3 amended: a vertex deferred only because of a deferred dependency is
\* recorded in DeferredResources and not in Changes.Resources, and nothing is
\* applied for it; its own PlanResourceChange call is still made.
C3_PrereqRecordedNotChanged ==
  \A d \in pdeferred :
    d.reason = "DeferredPrereq" =>
      /\ \A ch \in pchanges : ch.addr # d.addr
      /\ d.addr \notin papplied
      /\ HasPCall(d.addr, "PlanResourceChange")

C3_Witness ==
  /\ ppc = "idle" /\ pround > 0
  /\ papplied = {<<"a", NoKey>>}
  /\ \E d \in pdeferred : d.addr = <<"c", NoKey>> /\ d.reason = "DeferredPrereq"

\* C9: with DeferralAllowed = false, once the provider has answered a read, a
\* plan, an import or a data source read with a deferral, the round carries the
\* error "Provider deferred changes when Terraform did not allow deferrals",
\* records no deferred change and does not go on to a plan.
C9_ForbiddenDeferralIsError ==
  (~popts.allowed /\ \E c \in pcalls : c.addr[1] = "a" /\ c.op = popts.defer) =>
    /\ DeferralForbidden \in pdiags
    /\ pdeferred = {}
    /\ ppc \in {"failed", "idle"}
    /\ ~pcomplete

C9_Witness ==
  /\ ~popts.allowed /\ ppc = "failed"
  /\ popts.defer = "ImportResourceState"
  /\ HasPCall(<<"a", NoKey>>, "ImportResourceState")
  /\ DeferralForbidden \in pdiags

\* the provider answered a call of this round with a deferral
ProviderDeferredInRound ==
  \E c \in pcalls : c.addr[1] = "a" /\ c.op = popts.defer

\* this plan was computed from the state the apply of the round before left,
\* with the same var.resource_count
ReplanOfApplied == ppc = "planned" /\ plast.applied /\ plast.count = pcount

KnownAfterUnknown ==
  /\ ppc = "planned"
  /\ plast.count = ExpUnknown /\ Targeted("b")
  /\ pcount # ExpUnknown

\* every instance of test.b has its own entry in Changes.Resources
PlannedConcretely ==
  {<<"b", k>> : k \in KeysOf(pcount)} \subseteq {ch.addr : ch \in ChangesOf("b")}

\* C12 as stated: in the round after one that deferred the resource for its
\* unknown count, a known count n gives no deferred entry for the resource, a
\* concrete change for each of its n instances, and Complete = true.
C12_NextRoundConcrete ==
  KnownAfterUnknown =>
    /\ DeferredOf("b") = {}
    /\ PlannedConcretely
    /\ pcomplete

\* C12 amended: in that round no instance-count-unknown deferral remains, and
\* when the plan has no resource targeting and the provider defers none of its
\* calls, the resource has no deferred entry, each of its n instances has a
\* concrete change, and Complete = true.
C12_NoCarryOver ==
  KnownAfterUnknown =>
    /\ \A d \in pdeferred : d.reason # "InstanceCountUnknown"
    /\ (popts.targets = {} /\ ~ProviderDeferredInRound) =>
         /\ DeferredOf("b") = {}
         /\ PlannedConcretely
         /\ pcomplete

C12_Witness ==
  /\ KnownAfterUnknown /\ plast.applied
  /\ pcount = ExpCount(2) /\ popts.targets = {} /\ ~ProviderDeferredInRound
  /\ [addr |-> <<"b", 0>>, action |-> "Create"] \in pchanges
  /\ [addr |-> <<"b", 1>>, action |-> "Create"] \in pchanges
  /\ pcomplete

\* test.b is declared with a known count and has no instance in the state
KnownCountNoState ==
  /\ ppc = "planned"
  /\ pcount # ExpUnknown
  /\ \A i \in pstate : i[1] # "b"

\* exactly one create per instance key 0 .. N-1, and nothing else
CreatesPerKey ==
  ChangesOf("b") = {[addr |-> <<"b", k>>, action |-> "Create"] : k \in 0 .. (pcount.n - 1)}

\* C13 as stated: a resource with a known count N and no prior state gets
\* exactly N create actions, one per key 0 .. N-1, and the plan is complete.
C13_CountCreates ==
  KnownCountNoState => (CreatesPerKey /\ pcomplete)

\* C13 amended: the same, when the plan has no resource targeting and the
\* provider defers none of its calls.
C13_UntargetedCountCreates ==
  (KnownCountNoState /\ popts.targets = {} /\ ~ProviderDeferredInRound) =>
    (CreatesPerKey /\ DeferredOf("b") = {} /\ pcomplete)

C13_Witness ==
  /\ KnownCountNoState /\ popts.targets = {} /\ ~ProviderDeferredInRound
  /\ ~popts.allowed
  /\ pcount = ExpCount(MaxCount)
  /\ Cardinality(ChangesOf("b")) = MaxCount
  /\ pcomplete

\* C30: in every plan, no resource instance address appears both in
\* Changes.Resources and in DeferredResources.
C30_ChangedOrDeferred ==
  \A ch \in pchanges : \A d \in pdeferred : ch.addr # d.addr

\* a finished plan with a change for test.a and deferred entries for the
\* resources behind it
C30_Witness ==
  /\ ppc = "planned"
  /\ \E ch \in pchanges : ch.addr[1] = "a"
  /\ \E d \in pdeferred : d.addr[1] = "b"
  /\ \E d \in pdeferred : d.addr[1] = "c" /\ d.reason = "DeferredPrereq"

\* C31: applying a plan that holds deferred changes calls the provider's
\* apply only for changes in Changes.Resources; no deferred change is applied
\* in that round.
C31_OnlyChangesApplied ==
  /\ papplied \subseteq {ch.addr : ch \in pchanges}
  /\ \A d \in pdeferred : d.addr \notin papplied

\* a plan with a change for test.a and the wildcard entry of test.b deferred
\* with action Create has been applied, and only test.a was
C31_Witness ==
  /\ ppc = "idle" /\ plast.applied
  /\ papplied = {<<"a", NoKey>>}
  /\ \E d \in pdeferred : d.addr = <<"b", WildcardKey>> /\ d.action = "Create"

(***************************************************************************)
(* Properties of the graph walk.                                           *)
(***************************************************************************)
Started(n) == wstatus[n] \in {"running", "done", "failed"}

\* C4: for every dependency edge A -> B, B's visit has not started unless A's
\* visit has completed or failed, whatever the interleaving and the
\* parallelism limit.
C4_DependencyOrder ==
  \A e \in wedges : Started(e[2]) => wstatus[e[1]] \in {"done", "failed"}

\* an edge whose target runs after its source, while two vertices with no path
\* between them run at once
C4_Witness ==
  /\ <<"a", "b">> \in wedges /\ wstatus["a"] = "done" /\ wstatus["b"] = "running"
  /\ wstatus["c"] = "running"
  /\ \A e \in wedges : e[2] # "c" /\ e[1] # "c"

(***************************************************************************)
(* Properties of the test runner's wait.                                   *)
(***************************************************************************)
\* handleCancelled has run
HardCancelHandled == summaries # {}

\* the original reading of C20: once the hard cancel has been handled, wait
\* does not go on waiting for the operation: two seconds later (a progress
\* update has been printed since) control is back with the caller even though
\* the operation is still running
C20_HardCancelAbandonsWait ==
  (HardCancelHandled /\ ~runningCtx /\ updatesSinceCancel > 0) =>
    waitAt = "returned"

\* C20: a hard cancel makes wait report what may be left behind, mark the
\* result cancelled and ask the context to stop without blocking on that
\* call; wait then keeps waiting and returns only once the operation in
\* flight has finished.
C20_HardCancelStillWaits ==
  /\ HardCancelHandled => (cancelled /\ stopCalled)
  /\ waitAt = "returned" => (runningCtx /\ finished)
  /\ (HardCancelHandled /\ ~runningCtx) => waitAt = "handleCancelled"

\* a cancelled wait that returned after at least two more seconds of waiting
C20_Witness ==
  /\ waitAt = "returned" /\ cancelled
  /\ updatesSinceCancel > 0

(***************************************************************************)
(* Properties of the test file runner.                                     *)
(***************************************************************************)
\* the states a run block has written to
WrittenKeys == {k \in DOMAIN RelevantStates : RelevantStates[k].Run # 0}

\* the keys destroy was called for
DestroyedKeys == {fdestroys[i] : i \in 1 .. Len(fdestroys)}

\* C21: after a graceful stop (first interrupt, no second one) the operation
\* in flight is left to finish (the context is not asked to stop), no further
\* run block is started (each is marked skipped instead), and cleanup still
\* calls destroy for every state a run has written.
C21_GracefulStop ==
  /\ [](stopCalled => CancelledCtx)
  /\ [][(StoppedCtx /\ fpc = "runs")
          => (fpc' # "validate" /\ (fidx' # fidx => runStatus'[fidx] = "skip"))]_vars
  /\ []((fpc = "done" /\ ~CancelledCtx) =>
          /\ \A i \in 1 .. Len(fruns) : runStatus[i] # "pending"
          /\ WrittenKeys \subseteq DestroyedKeys
          /\ "main" \in freports)

\* a stopped file: one run applied, the next skipped, the state destroyed
C21_Witness ==
  /\ fpc = "done" /\ StoppedCtx /\ ~CancelledCtx
  /\ Len(fruns) = 2 /\ runStatus[1] = "pass" /\ runStatus[2] = "skip"
  /\ WrittenKeys # {} /\ WrittenKeys \subseteq DestroyedKeys

\* a run block has left objects in a tracked state
LeftBehind == \E k \in DOMAIN RelevantStates : RelevantStates[k].State = "full"

\* C22: when a hard cancel ends the run of a file that has left objects in a
\* tracked state, the user is given a report of what may be left behind
\* (the fatal interrupt summary or a destroy summary), wherever the cancel
\* arrived.
C22_HardCancelReports ==
  (fpc = "done" /\ CancelledCtx /\ LeftBehind) =>
    (summaries # {} \/ freports # {})


(***************************************************************************)
(* Properties of the action of a resource change.                          *)
(***************************************************************************)
\* C23: for every action a resource change can carry, forget included,
\* encoding the action to its wire form and decoding it back succeeds and
\* returns the same action.
C23_ActionRoundTrip ==
  /\ cpc # "panic"
  /\ \A i \in 1 .. Len(readChanges) :
       ~readChanges[i].err /\ readChanges[i].action = planChanges[i]

\* C26: whatever action a rendered change carries, its "actions" list is one
\* of the seven documented values.
C26_DocumentedActions ==
  \A i \in 1 .. Len(jsonChanges) : jsonChanges[i] \in ValidActionsValues


(***************************************************************************)
(* Properties of reference evaluation.                                     *)
(***************************************************************************)
\* C24: a reference to a resource instance with a pending change evaluates
\* to the After value of that change; the value stored in state is the
\* result only when no change exists for the address.
C24_PrefersPlannedAfter ==
  got.value \notin {"idle", "none"} =>
    /\ got.changes # NoChange => got.value = got.changes.after
    /\ got.changes = NoChange => got.value = got.state.value

\* the case of TestEvaluatorGetResource_changes: a planned object in state,
\* an update pending with another value, and the evaluation gave the latter
C24_Witness ==
  /\ got.value \notin {"idle", "none"}
  /\ got.state = [status |-> "ObjectPlanned", value |-> "tacos"]
  /\ got.changes = [action |-> "Update", after |-> "pizza"]
  /\ got.value = "pizza"


(***************************************************************************)
(* Properties of the remote plan.                                          *)
(***************************************************************************)
\* the phases the run has
ConfiguredPhases ==
  (IF rcfg.postPlan THEN {"postPlan"} ELSE {})
    \cup (IF rcfg.costEstimate THEN {"costEstimate"} ELSE {})
    \cup (IF rcfg.policyChecks THEN {"checkPolicy"} ELSE {})

\* C25: when a remote run is found errored or canceled after its plan phase,
\* plan does not return on seeing the status: it goes on to the post-plan
\* tasks, the cost estimate and the policy checks the run has, and returns
\* early only with the error of one of these phases.
C25_FailedRunStillShowsPhases ==
  (rstatus \in FailedStatuses /\ rpc = "returned") =>
    /\ rret \in {"nil", "postPlan", "costEstimate", "checkPolicy"}
    /\ rret = "nil" => rshown = ConfiguredPhases
    /\ rret # "nil" => rret \in rshown

\* an errored run with all three phases, all of them rendered
C25_Witness ==
  /\ rstatus = "errored" /\ rpc = "returned" /\ rret = "nil"
  /\ rshown = {"postPlan", "costEstimate", "checkPolicy"}


(***************************************************************************)
(* Properties of for_each of a stack object.                               *)
(***************************************************************************)
\* the value is a known collection without elements
KnownEmpty ==
  forEachVal # NilVal /\ forEachVal.is = "known" /\ forEachVal.keys = {}

\* zero instances, known to be zero, and no error
ZeroInstances ==
  forEachDiags = {} /\ insts = [nil |-> FALSE, keys |-> {}]

\* the result for an unknown value: the wildcard placeholder, or no map
UnknownInstances ==
  /\ forEachDiags = {}
  /\ insts = IF unknownForEachSupported
             THEN [nil |-> FALSE, keys |-> {WildcardKey}]
             ELSE [nil |-> TRUE, keys |-> {}]

\* C27 as stated: every known empty collection expands to zero instances
\* with no error, and every unknown value to the wildcard placeholder or to
\* no instance map.
C27_EmptyIsZeroInstances ==
  epc = "done" =>
    /\ KnownEmpty => ZeroInstances
    /\ forEachVal.is = "unknown" => UnknownInstances

\* C27, amended: a known empty collection that is not marked sensitive
\* expands to zero instances with no error, an unknown value to the wildcard
\* placeholder (or to no instance map where unknowns are unsupported), and
\* the two results differ; a collection marked sensitive, empty or not, is
\* an error and expands to nothing.
C27_UnmarkedEmptyIsZeroInstances ==
  epc = "done" =>
    /\ (KnownEmpty /\ ~forEachVal.sensitive) => ZeroInstances
    /\ forEachVal.is = "unknown" => (UnknownInstances /\ ~ZeroInstances)
    /\ forEachVal.sensitive =>
         ("Invalid for_each value" \in forEachDiags
            /\ insts = [nil |-> TRUE, keys |-> {}])

\* an empty map of strings has given a non-nil map without instances
C27_Witness ==
  /\ epc = "done" /\ KnownEmpty /\ forEachVal.kind = "map"
  /\ ~forEachVal.sensitive /\ ZeroInstances

(***************************************************************************)
(* Properties of the cloud backend's Operation                             *)
(***************************************************************************)
GoroutineRunning(o) == opc[o] \in {"f", "read", "cancel"}

(* C32: at most one remote operation holds the operation lock at a time,   *)
(* and the lock is released on every return of the operation's goroutine:  *)
(* the lock is held exactly by the one operation whose goroutine is still  *)
(* running, so a call that waits for the lock is never held up by an       *)
(* operation that has returned.                                            *)
C32_LockHeldOnlyWhileRunning ==
  /\ \A o \in Ops : GoroutineRunning(o) <=> opLock = o
  /\ \A o1, o2 \in Ops : GoroutineRunning(o1) /\ GoroutineRunning(o2) => o1 = o2
  /\ (\A o \in Ops : ~GoroutineRunning(o)) => opLock = Unlocked

C32_Witness ==
  /\ opc[1] = "done" /\ ofret[1] = [r |-> FALSE, err |-> "Canceled"]
  /\ opc[2] = "f" /\ opLock = 2

(* C33: whenever the operation function returns context.Canceled, the      *)
(* running operation's Result is OperationFailure, both when no run was    *)
(* created and when a run exists and is then cancelled remotely.           *)
C33_InterruptedIsFailure ==
  \A o \in Ops :
    /\ opc[o] = "done"
    /\ ofret[o].err = "Canceled"
    /\ ~ofret[o].r \/ oremote[o] = "cancelled"
    => oresult[o] = "OperationFailure"

(* C34: the remote run is cancelled only if it is cancelable and either    *)
(* auto-approve is set or the user answered exactly "yes"; any other       *)
(* answer leaves the run alone and is not reported as an error.            *)
C34_CancelOnlyOnYes ==
  \A o \in Ops :
    /\ oremote[o] # "none" =>
         /\ ofret[o].err = "Canceled"
         /\ orun[o].cancelable
         /\ oauto[o] \/ oanswer[o] = "yes"
    /\ opc[o] = "done" /\ oanswer[o] \in Answers \ {"yes"} =>
         /\ oremote[o] = "none"
         /\ ~oreported[o]

C34_Witness ==
  /\ opc[1] = "done" /\ oanswer[1] = "y" /\ orun[1].cancelable
  /\ opc[2] = "done" /\ oanswer[2] = "yes" /\ oremote[2] = "cancelled"

(***************************************************************************)
(* Properties of the tracked states of a test file                         *)
(***************************************************************************)
(* C35: a run block changes the tracked state of its module only through   *)
(* apply: while a run validates or plans, the tracked states and their     *)
(* runs stay as they are, also when the run ends there; when an apply      *)
(* returns, failed or not, the state of the run's module is recorded with  *)
(* that run and no other tracked state changes.                            *)
C35_TrackedStateOnlyThroughApply ==
  [][/\ fpc \in {"validate", "plan"} => RelevantStates' = RelevantStates
     /\ fpc = "apply" /\ fpc' # "apply" =>
          /\ RelevantStates'[fruns[fidx].key].Run = fidx
          /\ \A k \in DOMAIN RelevantStates \ {fruns[fidx].key} :
               RelevantStates'[k] = RelevantStates[k]]_vars

C35_Witness ==
  /\ Len(fruns) = 2
  /\ fruns[1] = [command |-> "plan", key |-> "a"] /\ runStatus[1] = "pass"
  /\ fruns[2] = [command |-> "apply", key |-> "a"] /\ runStatus[2] = "error"
  /\ RelevantStates["a"] = [Run |-> 2, State |-> "full"]

(* The destroys cleanup has started so far are in its order: the main      *)
(* state before every other state, the other states by descending run.     *)
InCleanupOrder(q) ==
  \A i, j \in 1 .. Len(q) :
    i < j => /\ q[j] # "main"
             /\ q[i] = "main" \/ RelevantStates[q[i]].Run > RelevantStates[q[j]].Run

(* C36: cleanup destroys the main state first and then the states of the   *)
(* additional modules in descending order of the run block that last       *)
(* updated them, and once cleanup has found the hard cancel set it starts  *)
(* no further destroy: cleanup begins its destroys only when it found no   *)
(* hard cancel on entry, and goes on to an additional state only when it   *)
(* found none just before.                                                 *)
C36_CleanupOrder ==
  /\ [](/\ InCleanupOrder(fdestroys)
        /\ \A k \in DOMAIN RelevantStates :
             RelevantStates[k].Run # 0 /\ k \in freports \ {"main"}
               => "main" \in freports)
  /\ [][/\ fpc' = "main" /\ fpc # "main" => ~Cancelled
        /\ fdestroys' # fdestroys =>
             fpc = "main" \/ (fpc = "states" /\ ~Cancelled)
        /\ fpc \in {"cleanup", "runs", "states"} /\ Cancelled
             => fdestroys' = fdestroys /\ fqueue' = fqueue]_vars

C36_Witness ==
  /\ fpc = "done" /\ ~Cancelled
  /\ fdestroys = <<"b", "a">>
  /\ RelevantStates["a"].Run = 1 /\ RelevantStates["b"].Run = 2
  /\ "main" \in freports

(***************************************************************************)
(* Properties of loading a stack state                                     *)
(***************************************************************************)
NilRecognized(msgs) ==
  {k \in DOMAIN msgs : RecognizedType(k) /\ msgs[k] = NilAny}

(* C37: LoadFromProto tolerates a recognized key whose message is nil: it  *)
(* skips the entry, loads the remaining entries and returns a state.       *)
C37_NilMessageSkipped ==
  /\ lproto # NoOutcome
  /\ NilRecognized(lraw) # {}
  /\ \A k \in DOMAIN lraw \ NilRecognized(lraw) :
       ProtoEntry(k, lraw[k], EmptyStackState).kind = "ok"
  => lproto.kind = "ok"

(* What the two entry points have in common: all but the raw input. *)
Loaded(o) == [kind |-> o.kind, err |-> o.err, st |-> o.st]

(* The same, with the two wordings of the invalid key error taken as one. *)
LoadedUpToWording(o) ==
  [kind |-> o.kind,
   err |-> IF o.err[1] = "invalid tracking key in state"
           THEN <<"invalid tracking key", o.err[2]>> ELSE o.err,
   st |-> o.st]

Kept(ds) ==
  {i \in 1 .. Len(ds) :
     diagIsPromiseSelfReference(ds[i]) =>
       \A j \in 1 .. i - 1 : ~diagIsPromiseSelfReference(ds[j])}

(* C39: finalDiagnosticsFromEval returns the diagnostics given with every  *)
(* self-dependency diagnostic after the first removed and every other      *)
(* diagnostic kept, in their original relative order.                      *)
C39_FirstSelfDependencyOnly ==
  dpc = "returned" =>
    /\ Len(finalDiags) = Cardinality(Kept(evalDiags))
    /\ \A n \in 1 .. Len(finalDiags) :
         \E i \in Kept(evalDiags) :
           /\ Cardinality({j \in Kept(evalDiags) : j <= i}) = n
           /\ finalDiags[n] = evalDiags[i]

C39_Witness ==
  /\ dpc = "returned"
  /\ evalDiags = <<"warning", "selfDependencyA", "selfDependencyB",
                   "selfDependencyB">>
  /\ finalDiags = <<"warning", "selfDependencyA">>

(***************************************************************************)
(* Properties of the variables of a remote run                             *)
(***************************************************************************)
(* C40: the variable list sent when the run is created has exactly one     *)
(* entry for each parsed variable and no other entries.                    *)
C40_OneEntryPerVariable ==
  vpc = "created" =>
    /\ Len(runVariables) = Cardinality(DOMAIN variables)
    /\ \A i \in 1 .. Len(runVariables) :
         /\ runVariables[i] # NilRunVariable
         /\ runVariables[i].Key \in DOMAIN variables
         /\ runVariables[i].Value = variables[runVariables[i].Key]
    /\ \A name \in DOMAIN variables :
         Cardinality({i \in 1 .. Len(runVariables) :
                        runVariables[i].Key = name}) = 1

====
